---------------------------- MODULE Spec2Model ----------------------------
(***************************************************************************)
(* Query Pattern Analysis & Anonymized Recommendation Pipeline.            *)
(*                                                                         *)
(* Part 1 of the development: the Anonymizer (api/services/               *)
(* privacy_service.py) and the Advisory Orchestrator (api/services/       *)
(* ai_query_service.py, api/services/ai_service.py).                       *)
(*                                                                         *)
(* Python strings are TLA+ strings; a character is a string of length 1.   *)
(* A Python dict is a sequence of [k, v] records in insertion order.       *)
(* A missing (None) string argument is the empty string: the code only     *)
(* ever tests such arguments for truthiness.                               *)
(***************************************************************************)
EXTENDS Integers, Sequences, FiniteSets, TLC

(***************************************************************************)
(* Characters and strings (Python str semantics)                           *)
(***************************************************************************)
\* Printable ASCII, code points 32..91 and 93..125.  A TLA+ string literal
\* cannot hold a backtick (code point 96): it is written "~" throughout.
AsciiLow == " !\"#$%&'()*+,-./0123456789:;<=>?@ABCDEFGHIJKLMNOPQRSTUVWXYZ["
AsciiHigh == "]^_~abcdefghijklmnopqrstuvwxyz{|}"
BACKTICK == "~"

CharAt(s, i) == SubSeq(s, i, i)

Chars == { CharAt(AsciiLow, i) : i \in 1..Len(AsciiLow) }
           \cup { CharAt(AsciiHigh, i) : i \in 1..Len(AsciiHigh) }

\* ord(c)
OrdMap == [ c \in Chars |->
             IF \E i \in 1..Len(AsciiLow) : CharAt(AsciiLow, i) = c
             THEN 31 + (CHOOSE i \in 1..Len(AsciiLow) : CharAt(AsciiLow, i) = c)
             ELSE 92 + (CHOOSE i \in 1..Len(AsciiHigh) : CharAt(AsciiHigh, i) = c) ]

ord(c) == OrdMap[c]

\* chr(n), for the code points of Chars
chr(n) == IF n <= 91 THEN CharAt(AsciiLow, n - 31) ELSE CharAt(AsciiHigh, n - 92)

\* str.lower() on one character / on a string
LowerMap ==
    [ c \in Chars |->
        IF OrdMap[c] >= 65 /\ OrdMap[c] <= 90 THEN chr(OrdMap[c] + 32) ELSE c ]

LowerChar(c) == LowerMap[c]

RECURSIVE lower(_)
lower(s) ==
    IF s = "" THEN ""
    ELSE IF Len(s) = 1 THEN LowerChar(s)
    ELSE LET h == Len(s) \div 2
         IN  lower(SubSeq(s, 1, h)) \o lower(SubSeq(s, h + 1, Len(s)))

\* regex \w on one character (ASCII letters, digits, underscore)
IsWordChar(c) ==
    \/ (ord(c) >= 48 /\ ord(c) <= 57)
    \/ (ord(c) >= 65 /\ ord(c) <= 90)
    \/ (ord(c) >= 97 /\ ord(c) <= 122)
    \/ c = "_"

\* regex \s on one character
IsSpaceChar(c) == c = " "

\* Python `sub in s`
Contains(s, sub) ==
    \E i \in 1..(Len(s) - Len(sub) + 1) : SubSeq(s, i, i + Len(sub) - 1) = sub

\* Python `a < b` on strings: lexicographic by code point
RECURSIVE StrLess(_, _)
StrLess(a, b) ==
    IF b = "" THEN FALSE
    ELSE IF a = "" THEN TRUE
    ELSE IF CharAt(a, 1) = CharAt(b, 1)
         THEN StrLess(SubSeq(a, 2, Len(a)), SubSeq(b, 2, Len(b)))
         ELSE ord(CharAt(a, 1)) < ord(CharAt(b, 1))

\* sorted(S) for a set of strings
RECURSIVE sorted(_)
sorted(S) ==
    IF S = {} THEN << >>
    ELSE LET m == CHOOSE x \in S : \A y \in S \ {x} : StrLess(x, y)
         IN  <<m>> \o sorted(S \ {m})

(***************************************************************************)
(* Python dict as an insertion-ordered sequence of [k, v]                  *)
(***************************************************************************)
DictKeys(d) == { d[i].k : i \in 1..Len(d) }
DictValues(d) == { d[i].v : i \in 1..Len(d) }
DictHas(d, key) == \E i \in 1..Len(d) : d[i].k = key
DictGet(d, key) == d[CHOOSE i \in 1..Len(d) : d[i].k = key].v
\* d.get(key, default)
DictGetOr(d, key, default) == IF DictHas(d, key) THEN DictGet(d, key) ELSE default
\* d[key] = val : an existing key keeps its position
DictSet(d, key, val) ==
    IF DictHas(d, key)
    THEN [ i \in 1..Len(d) |-> IF d[i].k = key THEN [k |-> key, v |-> val] ELSE d[i] ]
    ELSE Append(d, [k |-> key, v |-> val])
\* d.update(e)
RECURSIVE DictUpdate(_, _)
DictUpdate(d, e) ==
    IF e = << >> THEN d
    ELSE DictUpdate(DictSet(d, e[1].k, e[1].v), Tail(e))
\* {v: k for k, v in d.items()}
RECURSIVE DictInvert(_)
DictInvert(d) ==
    IF d = << >> THEN << >>
    ELSE LET n == Len(d)
         IN  DictSet(DictInvert(SubSeq(d, 1, n - 1)), d[n].v, d[n].k)

(***************************************************************************)
(* Anonymizer: api/services/privacy_service.py                             *)
(*                                                                         *)
(* A partition-statistics entry is                                         *)
(*   [time_key, start, columns : Seq([column, filter_types])]              *)
(* where time_key names the key ('week_start' or 'month_start') that holds *)
(* the bucket start.  Table metadata is                                    *)
(*   [present, size_bytes, row_count, columns : [kind, valid, items]]      *)
(* with present = FALSE for None; columns.kind is "list" for a parsed list *)
(* and "json" for a JSON-encoded string (valid = FALSE when it does not    *)
(* parse); an item is [isdict, name, type], isdict = FALSE for a bare      *)
(* string.                                                                 *)
(***************************************************************************)
\* hashlib.sha256(s.encode()).hexdigest()[:8].upper(), tabulated for the
\* identifiers of the model (the digests are the real ones).
Sha256Hex8 ==
    << [k |-> "orders",     v |-> "1C168ADB"],
       [k |-> "id",         v |-> "A5614527"],
       [k |-> "sales",      v |-> "E04EB290"],
       [k |-> "public",     v |-> "EFA1F375"],
       [k |-> "bigquery",   v |-> "764A51BA"],
       [k |-> "snowflake",  v |-> "DE5A1ADF"],
       [k |-> "acme",       v |-> "822B33AD"],
       [k |-> "status",     v |-> "073C1634"],
       [k |-> "cust_id",    v |-> "AC54E94E"],
       [k |-> "created_at", v |-> "E878A9D9"] >>

hash8(s) == DictGet(Sha256Hex8, s)

\* anonymize_entity that leaves the prefix out of the token
anonymize_entity_without_class(entity_name, prefix) ==
    << "__" \o hash8(entity_name) \o "__", entity_name >>

\* anonymize_entity: (anonymized_name, original_name)
anonymize_entity(entity_name, prefix) ==
    << "__" \o prefix \o "_" \o hash8(entity_name) \o "__", entity_name >>

\* anonymize_entities: dict anonymized -> original for DB, SCH, PLATFORM, PROJECT
anonymize_entities(database, schema, source_platform, source_project) ==
    LET entities == << <<database, "DB">>, <<schema, "SCH">>,
                       <<source_platform, "PLATFORM">>, <<source_project, "PROJECT">> >>
        Step[i \in 0..Len(entities)] ==
            IF i = 0 THEN << >>
            ELSE LET a == anonymize_entity(entities[i][1], entities[i][2])
                 IN  DictSet(Step[i - 1], a[1], a[2])
    IN  Step[Len(entities)]

\* the parsed column list of a metadata record: json.loads for a JSON string
\* (an unparsable string gives []), the list itself otherwise
metadata_columns(table_metadata) ==
    LET columns_raw == table_metadata.columns
    IN  IF columns_raw.kind = "json"
        THEN (IF columns_raw.valid THEN columns_raw.items ELSE << >>)
        ELSE columns_raw.items

\* column names of the partition statistics (falsy names skipped)
columns_from_stats(partition_stats) ==
    UNION { { partition_stats[i].columns[j].column :
                j \in 1..Len(partition_stats[i].columns) } :
            i \in 1..Len(partition_stats) } \ {""}

\* column names of the table metadata (falsy names skipped; None metadata
\* gives none)
columns_from_metadata(table_metadata) ==
    IF ~table_metadata.present THEN {}
    ELSE LET cols == metadata_columns(table_metadata)
         IN  { cols[i].name : i \in 1..Len(cols) } \ {""}

\* anonymize_data_for_ai that collects the columns of the statistics only
anonymize_data_for_ai_of_stats_only(table, partition_stats, time_data, table_metadata) ==
    LET anon_table == "__TBL_" \o hash8(table) \o "__"
        all_columns == sorted(columns_from_stats(partition_stats))
        Rev[i \in 0..Len(all_columns)] ==
            IF i = 0 THEN << [k |-> anon_table, v |-> table] >>
            ELSE DictSet(Rev[i - 1],
                         "__COL_" \o hash8(all_columns[i]) \o "__", all_columns[i])
        name_mapping == DictInvert(Rev[Len(all_columns)])
    IN  [ anon_table |-> anon_table,
          anonymized_stats |->
            [ i \in 1..Len(partition_stats) |->
                [ partition_stats[i] EXCEPT !.columns =
                    [ j \in 1..Len(@) |->
                        [ @[j] EXCEPT !.column = DictGetOr(name_mapping, @, @) ] ] ] ],
          time_data |-> time_data, reverse_mapping |-> Rev[Len(all_columns)] ]

\* anonymize_data_for_ai:
\* (anonymized_table, anonymized_partition_stats, time_data, reverse_mapping)
anonymize_data_for_ai(table, partition_stats, time_data, table_metadata) ==
    LET anon_table == "__TBL_" \o hash8(table) \o "__"
        all_columns == sorted(columns_from_stats(partition_stats)
                                \cup columns_from_metadata(table_metadata))
        Rev[i \in 0..Len(all_columns)] ==
            IF i = 0 THEN << [k |-> anon_table, v |-> table] >>
            ELSE DictSet(Rev[i - 1],
                         "__COL_" \o hash8(all_columns[i]) \o "__", all_columns[i])
        reverse_mapping == Rev[Len(all_columns)]
        name_mapping == DictInvert(reverse_mapping)
        anonymized_stats ==
            [ i \in 1..Len(partition_stats) |->
                [ time_key |-> partition_stats[i].time_key,
                  start    |-> partition_stats[i].start,
                  columns  |->
                    [ j \in 1..Len(partition_stats[i].columns) |->
                        [ column |-> DictGetOr(name_mapping,
                                               partition_stats[i].columns[j].column,
                                               partition_stats[i].columns[j].column),
                          filter_types |-> partition_stats[i].columns[j].filter_types ] ] ] ]
    IN  [ anon_table |-> anon_table, anonymized_stats |-> anonymized_stats,
          time_data |-> time_data, reverse_mapping |-> reverse_mapping ]

\* the metadata record that stands for None
NoMetadata ==
    [ present |-> FALSE, size_bytes |-> 0, row_count |-> 0,
      columns |-> [kind |-> "list", valid |-> TRUE, items |-> << >>] ]

\* anonymize_table_metadata that copies the column names
anonymize_table_metadata_keeps_names(table_metadata, reverse_map) ==
    IF ~table_metadata.present THEN NoMetadata
    ELSE LET columns == metadata_columns(table_metadata)
         IN  [ present |-> TRUE,
               size_bytes |-> table_metadata.size_bytes,
               row_count |-> table_metadata.row_count,
               columns |->
                 [ kind |-> "list", valid |-> TRUE,
                   items |->
                     [ i \in 1..Len(columns) |->
                         [ isdict |-> TRUE,
                           name |-> columns[i].name,
                           type |-> IF columns[i].isdict THEN columns[i].type
                                    ELSE "unknown" ] ] ] ]

\* anonymize_table_metadata: columns renamed through the inverted reverse map,
\* a bare string column gets type 'unknown'; None stays None
anonymize_table_metadata(table_metadata, reverse_map) ==
    IF ~table_metadata.present THEN NoMetadata
    ELSE LET name_mapping == DictInvert(reverse_map)
             columns == metadata_columns(table_metadata)
         IN  [ present |-> TRUE,
               size_bytes |-> table_metadata.size_bytes,
               row_count |-> table_metadata.row_count,
               columns |->
                 [ kind |-> "list", valid |-> TRUE,
                   items |->
                     [ i \in 1..Len(columns) |->
                         [ isdict |-> TRUE,
                           name |-> DictGetOr(name_mapping, columns[i].name, columns[i].name),
                           type |-> IF columns[i].isdict THEN columns[i].type
                                    ELSE "unknown" ] ] ] ]

\* build_complete_anonymization_map: (forward_mapping, reverse_mapping)
build_complete_anonymization_map(table, database, schema, source_platform, source_project, partition_stats, table_metadata) ==
    LET reverse_map == DictUpdate(
            anonymize_data_for_ai(table, partition_stats, << >>, table_metadata).reverse_mapping,
            anonymize_entities(database, schema, source_platform, source_project))
    IN  [ forward_map |-> DictInvert(reverse_map), reverse_map |-> reverse_map ]

(***************************************************************************)
(* restore_names_in_response: re.sub of five patterns per token,           *)
(* flags = re.IGNORECASE.  Tokens hold only \w characters, so re.escape    *)
(* leaves them as they are; the identifiers of the model hold no backslash,*)
(* so the replacement templates are literal.                               *)
(***************************************************************************)
\* regex \b between text[p-1] and text[p]
WordBoundary(text, p) ==
    LET W(q) == q >= 1 /\ q <= Len(text) /\ IsWordChar(CharAt(text, q))
    IN  W(p - 1) # W(p)

\* ltext[i .. i+Len(llit)-1] = llit; with ltext = lower(text) and
\* llit = lower(lit) this is a match of the literal lit at i ignoring case
LitAt(ltext, i, llit) ==
    /\ i >= 1
    /\ i + Len(llit) - 1 <= Len(ltext)
    /\ SubSeq(ltext, i, i + Len(llit) - 1) = llit

\* the alternatives of (ON|BY|FROM|INTO|TABLE), lowered
SqlKeywords == << "on", "by", "from", "into", "table" >>

\* number of \s characters of text from position i on
RECURSIVE SpaceRun(_, _)
SpaceRun(text, i) ==
    IF i <= Len(text) /\ IsSpaceChar(CharAt(text, i)) THEN 1 + SpaceRun(text, i + 1) ELSE 0

\* the match of pattern number pat for a token (ltok is the token lowered)
\* that starts at position i of text: [len, g1] with len the length of the
\* match (0 when there is none) and g1 the length of group 1
\*   1  \b<token>\b     2  `<token>`     3  "<token>"     4  '<token>'
\*   5  (ON|BY|FROM|INTO|TABLE)\s+<token>\b
MatchAt(pat, ltok, text, ltext, i) ==
    LET n == Len(ltok)
        quote == IF pat = 2 THEN BACKTICK ELSE IF pat = 3 THEN "\"" ELSE "'"
        NoMatch == [len |-> 0, g1 |-> 0]
    IN  IF pat = 1
        THEN (IF LitAt(ltext, i, ltok) /\ WordBoundary(text, i)
                   /\ WordBoundary(text, i + n)
              THEN [len |-> n, g1 |-> 0] ELSE NoMatch)
        ELSE IF pat \in {2, 3, 4}
        THEN (IF LitAt(ltext, i, quote) /\ LitAt(ltext, i + 1, ltok)
                   /\ LitAt(ltext, i + 1 + n, quote)
              THEN [len |-> n + 2, g1 |-> 0] ELSE NoMatch)
        ELSE LET kws == { j \in 1..Len(SqlKeywords) : LitAt(ltext, i, SqlKeywords[j]) }
             IN  IF kws = {} THEN NoMatch
                 ELSE LET kw == SqlKeywords[CHOOSE j \in kws : \A j2 \in kws : j <= j2]
                          sp == SpaceRun(text, i + Len(kw))
                          t  == i + Len(kw) + sp
                      IN  IF sp >= 1 /\ LitAt(ltext, t, ltok)
                               /\ WordBoundary(text, t + n)
                          THEN [len |-> Len(kw) + sp + n, g1 |-> Len(kw)]
                          ELSE NoMatch

\* the replacement template of pattern pat expanded for a match m at i
Replacement(pat, orig_name, text, i, m) ==
    IF pat = 1 THEN orig_name
    ELSE IF pat = 2 THEN BACKTICK \o orig_name \o BACKTICK
    ELSE IF pat = 3 THEN "\"" \o orig_name \o "\""
    ELSE IF pat = 4 THEN "'" \o orig_name \o "'"
    ELSE SubSeq(text, i, i + m.g1 - 1) \o " " \o orig_name

\* re_sub with count=1: the leftmost match is replaced, the rest is copied
re_sub_first_match_only(pat, anon_name, orig_name, text) ==
    LET ltext == lower(text)
        ltok == lower(anon_name)
        n == Len(text)
        Starts == { j \in 1..n : MatchAt(pat, ltok, text, ltext, j).len > 0 }
    IN  IF Starts = {} THEN text
        ELSE LET j == CHOOSE j1 \in Starts : \A j2 \in Starts : j1 <= j2
                 m == MatchAt(pat, ltok, text, ltext, j)
             IN  SubSeq(text, 1, j - 1)
                   \o Replacement(pat, orig_name, text, j, m)
                   \o SubSeq(text, j + m.len, n)

\* re.sub(pattern, replacement, text, flags=re.IGNORECASE): leftmost
\* non-overlapping matches, scanning left to right; the text between two
\* matches is copied
re_sub(pat, anon_name, orig_name, text) ==
    LET ltext == lower(text)
        ltok == lower(anon_name)
        n == Len(text)
        Starts == { j \in 1..n : MatchAt(pat, ltok, text, ltext, j).len > 0 }
        Out[i \in 1..(n + 1)] ==
            IF \A j \in Starts : j < i THEN SubSeq(text, i, n)
            ELSE LET j == CHOOSE j1 \in Starts : j1 >= i /\ \A j2 \in Starts : j2 >= i => j1 <= j2
                     m == MatchAt(pat, ltok, text, ltext, j)
                 IN  SubSeq(text, i, j - 1)
                       \o Replacement(pat, orig_name, text, j, m)
                       \o Out[j + m.len]
    IN  Out[1]

\* sorted(items, key=lambda x: len(x[0]), reverse=True): stable
RECURSIVE SortByKeyLenDesc(_)
SortByKeyLenDesc(d) ==
    IF d = << >> THEN << >>
    ELSE LET first == CHOOSE i \in 1..Len(d) :
                         /\ \A j \in 1..Len(d) : Len(d[j].k) <= Len(d[i].k)
                         /\ \A j \in 1..(i - 1) : Len(d[j].k) < Len(d[i].k)
         IN  <<d[first]>> \o SortByKeyLenDesc(SubSeq(d, 1, first - 1)
                                               \o SubSeq(d, first + 1, Len(d)))

\* for each token, longest first, the five substitutions in order:
\* substitution number k (counting from 0) is pattern (k % 5) + 1 of
\* token (k \div 5) + 1
restore_names_in_response(ai_response, reverse_mapping) ==
    LET items == SortByKeyLenDesc(reverse_mapping)
        last == 5 * Len(items)
        Restored[k \in 0..last, text \in STRING] ==
            IF k = last THEN text
            ELSE Restored[k + 1,
                          re_sub((k % 5) + 1, items[(k \div 5) + 1].k,
                                 items[(k \div 5) + 1].v, text)]
    IN  Restored[0, ai_response]

(***************************************************************************)
(* Prompt construction: api/services/ai_service.py, build_ai_prompt        *)
(*                                                                         *)
(* A time-bucket statistic is [time_key, start, total_queries,             *)
(* star_queries].  The prompt is the record of the values the f-string     *)
(* interpolates into its fixed text; the identifying ones are kept as the  *)
(* strings the f-string produces.                                          *)
(***************************************************************************)
RECURSIVE SumSeq(_, _)
\* sum(t[field] for t in seq), field being "total_queries" or "star_queries"
SumSeq(seq, field) ==
    IF seq = << >> THEN 0
    ELSE (IF field = "total_queries" THEN seq[1].total_queries ELSE seq[1].star_queries)
         + SumSeq(Tail(seq), field)

\* seq[-n:]
LastN(seq, n) == IF Len(seq) <= n THEN seq ELSE SubSeq(seq, Len(seq) - n + 1, Len(seq))
\* seq[:n]
FirstN(seq, n) == IF Len(seq) <= n THEN seq ELSE SubSeq(seq, 1, n)

\* ", ".join(...) over the texts of dict items
RECURSIVE JoinColumnTexts(_)
JoinColumnTexts(columns) ==
    IF columns = << >> THEN ""
    ELSE LET c == columns[1]
             one == c.name \o " (" \o c.type \o ")"
         IN  IF Len(columns) = 1 THEN one
             ELSE one \o ", " \o JoinColumnTexts(Tail(columns))

\* ", ".join(f"{c['name']} ({c.get('type', 'unknown')})" for c in columns):
\* c['name'] on an item that is a str raises TypeError
JoinColumns(columns) ==
    IF \E i \in 1..Len(columns) : ~columns[i].isdict
    THEN [ raised |-> TRUE,
           error |-> "TypeError: string indices must be integers, not 'str'",
           value |-> "" ]
    ELSE [ raised |-> FALSE, error |-> "", value |-> JoinColumnTexts(columns) ]

NoPrompt ==
    [ built |-> FALSE, raised |-> FALSE, error |-> "",
      target |-> "", period |-> "", table_line |-> "",
      source_line |-> "", has_table_info |-> FALSE, size_bytes |-> 0,
      row_count |-> 0, n_columns |-> 0, col_list |-> "",
      total_periods |-> 0, total_queries |-> 0, total_star |-> 0,
      recent_queries |-> 0, time_data |-> << >>, top_filters |-> << >>,
      partition_stats |-> << >> ]

build_ai_prompt(table, source_platform, source_project, target_warehouse, time_data, partition_stats, table_metadata, database, schema, period0) ==
    LET period == IF time_data # << >> /\ period0 = ""
                  THEN (IF time_data[1].time_key = "month_start" THEN "monthly" ELSE "weekly")
                  ELSE period0
        recent_count == IF period = "monthly" THEN 2 ELSE 4
        columns == IF table_metadata.present THEN metadata_columns(table_metadata) ELSE << >>
        col_list == IF columns # << >> THEN JoinColumns(columns)
                    ELSE [ raised |-> FALSE, error |-> "", value |-> "Unknown" ]
    IN  IF col_list.raised
        THEN [ NoPrompt EXCEPT !.raised = TRUE, !.error = col_list.error ]
        ELSE
        [ built |-> TRUE, raised |-> FALSE, error |-> "",
          target |-> IF target_warehouse # "" THEN target_warehouse ELSE "Generic",
          period |-> period,
          table_line |-> IF database # "" /\ schema # ""
                         THEN database \o "." \o schema \o "." \o table
                         ELSE table,
          source_line |-> source_platform \o " / " \o source_project,
          has_table_info |-> table_metadata.present,
          size_bytes |-> table_metadata.size_bytes,
          row_count |-> table_metadata.row_count,
          n_columns |-> Len(columns),
          col_list |-> col_list.value,
          total_periods |-> Len(time_data),
          total_queries |-> SumSeq(time_data, "total_queries"),
          total_star |-> SumSeq(time_data, "star_queries"),
          recent_queries |-> SumSeq(LastN(time_data, recent_count), "total_queries"),
          time_data |-> time_data,
          \* stat.get('column', 'unknown') etc. on the first five bucket
          \* entries, which carry no such keys
          top_filters |-> [ i \in 1..Len(FirstN(partition_stats, 5)) |->
                              "  - unknown: unknown (0 uses)" ],
          partition_stats |-> partition_stats ]

(***************************************************************************)
(* api/services/ai_query_service.py, anonymize_and_build_prompt            *)
(*                                                                         *)
(* The statistics bundle is [weekly_stats, monthly_stats, partition_stats, *)
(* table_metadata, summary].                                               *)
(***************************************************************************)
anonymize_and_build_prompt(table, database, schema, source_platform, source_project, target_warehouse, stats_data, period) ==
    LET time_stats == IF period = "weekly" THEN stats_data.weekly_stats
                      ELSE stats_data.monthly_stats
        maps == build_complete_anonymization_map(
                    table, database, schema, source_platform, source_project,
                    stats_data.partition_stats, stats_data.table_metadata)
        forward_map == maps.forward_map
        partition_anon == anonymize_data_for_ai(
                              table, stats_data.partition_stats, time_stats,
                              stats_data.table_metadata).anonymized_stats
        table_metadata_anon == anonymize_table_metadata(stats_data.table_metadata,
                                                        maps.reverse_map)
    IN  [ prompt |-> build_ai_prompt(
                        DictGet(forward_map, table),
                        DictGet(forward_map, source_platform),
                        DictGet(forward_map, source_project),
                        target_warehouse, time_stats, partition_anon,
                        table_metadata_anon,
                        DictGet(forward_map, database),
                        DictGet(forward_map, schema), period),
          reverse_map |-> maps.reverse_map,
          forward_map |-> forward_map ]

(***************************************************************************)
(* Generator call: api/services/ai_service.py, query_gemini_ai             *)
(*                                                                         *)
(* What client.models.generate_content does on one attempt is chosen by    *)
(* the environment: it returns a response [is_none, text, candidate_text]  *)
(* or raises an exception with a message.                                  *)
(***************************************************************************)
max_retries == 3
base_delay == 2

\* 2 ** n
RECURSIVE Pow2(_)
Pow2(n) == IF n = 0 THEN 1 ELSE 2 * Pow2(n - 1)

\* str(n) for one decimal digit
Digit(n) == chr(48 + n)

\* the body of the try block of one attempt: the text returned, or the
\* message of the exception that reaches the except clause
try_generate(outcome) ==
    IF outcome.raises THEN [ok |-> FALSE, text |-> "", error_msg |-> outcome.msg]
    ELSE IF ~outcome.is_none
    THEN (IF outcome.text # ""
          THEN [ok |-> TRUE, text |-> outcome.text, error_msg |-> ""]
          ELSE IF outcome.candidate_text # ""
          THEN [ok |-> TRUE, text |-> outcome.candidate_text, error_msg |-> ""]
          ELSE [ok |-> FALSE, text |-> "",
                error_msg |-> "Gemini API returned empty response"])
    ELSE [ok |-> FALSE, text |-> "", error_msg |-> "Gemini API returned None response"]

\* is_overload that also takes a timeout for an overload
is_overload_or_timeout(error_msg) ==
    \/ Contains(error_msg, "503")
    \/ Contains(lower(error_msg), "overloaded")
    \/ Contains(error_msg, "UNAVAILABLE")
    \/ Contains(lower(error_msg), "timed out")

is_overload(error_msg) ==
    \/ Contains(error_msg, "503")
    \/ Contains(lower(error_msg), "overloaded")
    \/ Contains(error_msg, "UNAVAILABLE")

is_empty_response(error_msg) ==
    \/ Contains(lower(error_msg), "empty response")
    \/ Contains(lower(error_msg), "None response")

\* gemini_attempt with the last-attempt test left out: a retryable failure
\* of the third attempt sleeps too
gemini_attempt_retries_last(outcome, attempt) ==
    LET r == try_generate(outcome)
    IN  IF r.ok
        THEN [action |-> "return", text |-> r.text, delay |-> 0, error |-> ""]
        ELSE IF is_overload(r.error_msg) \/ is_empty_response(r.error_msg)
        THEN [action |-> "retry", text |-> "", delay |-> base_delay * Pow2(attempt),
              error |-> ""]
        ELSE [action |-> "raise", text |-> "", delay |-> 0,
              error |-> "Gemini API failed after " \o Digit(attempt + 1)
                        \o " attempts: " \o r.error_msg]

\* one iteration of the retry loop, attempt counted from 0:
\* [action, text, delay, error] with action "return", "retry" (after sleeping
\* delay seconds) or "raise"
gemini_attempt(outcome, attempt) ==
    LET r == try_generate(outcome)
        is_last_attempt == attempt = max_retries - 1
    IN  IF r.ok
        THEN [action |-> "return", text |-> r.text, delay |-> 0, error |-> ""]
        ELSE IF (is_overload(r.error_msg) \/ is_empty_response(r.error_msg))
                /\ ~is_last_attempt
        THEN [action |-> "retry", text |-> "", delay |-> base_delay * Pow2(attempt),
              error |-> ""]
        ELSE [action |-> "raise", text |-> "", delay |-> 0,
              error |-> "Gemini API failed after " \o Digit(attempt + 1)
                        \o " attempts: " \o r.error_msg]

(***************************************************************************)
(* api/services/ai_query_service.py, query_ai_with_fallback: the steps     *)
(* between the generator calls                                             *)
(***************************************************************************)
NoResult == [ kind |-> "none", text |-> "", reverse_map |-> << >>, error |-> "" ]

\* after_call with the test of the returned text inverted: a non-empty text
\* is taken for a failure
after_call_text_is_failure(tier, r, rev) ==
    LET msg == IF tier = "weekly" THEN "AI returned empty response"
               ELSE "AI returned empty response after retry"
    IN  IF r.action = "return" /\ r.text # ""
        THEN (IF tier = "weekly"
              THEN [ pc |-> "fallback", error |-> msg, result |-> NoResult ]
              ELSE [ pc |-> "raised", error |-> msg,
                     result |-> [ kind |-> "error", text |-> "", reverse_map |-> << >>,
                                  error |-> msg ] ])
        ELSE [ pc |-> "returned", error |-> "",
               result |-> [ kind |-> "text", text |-> r.text, reverse_map |-> rev,
                            error |-> "" ] ]

\* after_call whose monthly tier handles a failure like the weekly tier: it
\* degrades again
after_call_degrades_again(tier, r, rev) ==
    IF r.action = "return" /\ r.text # ""
    THEN [ pc |-> "returned", error |-> "",
           result |-> [ kind |-> "text", text |-> r.text, reverse_map |-> rev,
                        error |-> "" ] ]
    ELSE [ pc |-> "fallback",
           error |-> IF r.action = "raise" THEN r.error ELSE "AI returned empty response",
           result |-> NoResult ]

\* what follows a finished query_gemini_ai call of a tier, r being the last
\* gemini_attempt: a non-empty text is returned with the current reverse
\* map; anything else is an exception, caught by the weekly tier's except
\* clause and passed to the caller by the monthly tier
after_call(tier, r, rev) ==
    IF r.action = "return" /\ r.text # ""
    THEN [ pc |-> "returned", error |-> "",
           result |-> [ kind |-> "text", text |-> r.text, reverse_map |-> rev,
                        error |-> "" ] ]
    ELSE LET msg == IF r.action = "raise" THEN r.error
                    ELSE IF tier = "weekly" THEN "AI returned empty response"
                    ELSE "AI returned empty response after retry"
         IN  IF tier = "weekly"
             THEN [ pc |-> "fallback", error |-> msg, result |-> NoResult ]
             ELSE [ pc |-> "raised", error |-> msg,
                    result |-> [ kind |-> "error", text |-> "", reverse_map |-> << >>,
                                 error |-> msg ] ]

\* degrade that drops the second value of anonymize_and_build_prompt: the
\* weekly reverse map stays
degrade_keeps_weekly_map(r, st, rev) ==
    LET truncated ==
            [ st EXCEPT !.monthly_stats = LastN(st.monthly_stats, 2),
                        !.partition_stats = LastN(st.partition_stats, 2) ]
        ab == anonymize_and_build_prompt(
                  r.table, r.database, r.schema, r.source_platform,
                  r.source_project, r.target_warehouse, truncated, "monthly")
    IN  [ stats |-> truncated, prompt_monthly |-> ab.prompt,
          reverse_map |-> rev, forward_map |-> ab.forward_map ]

\* degrade that cuts the lists to their first two entries
degrade_keeps_oldest(r, st, rev) ==
    LET truncated ==
            [ st EXCEPT !.monthly_stats = FirstN(st.monthly_stats, 2),
                        !.partition_stats = FirstN(st.partition_stats, 2) ]
        ab == anonymize_and_build_prompt(
                  r.table, r.database, r.schema, r.source_platform,
                  r.source_project, r.target_warehouse, truncated, "monthly")
    IN  [ stats |-> truncated, prompt_monthly |-> ab.prompt,
          reverse_map |-> ab.reverse_map, forward_map |-> ab.forward_map ]

\* degrade that cuts the weekly series and the summary along with the two
\* lists
degrade_cuts_weekly(r, st, rev) ==
    LET truncated ==
            [ st EXCEPT !.monthly_stats = LastN(st.monthly_stats, 2),
                        !.partition_stats = LastN(st.partition_stats, 2),
                        !.weekly_stats = LastN(st.weekly_stats, 2),
                        !.summary.total_weeks = Len(LastN(st.weekly_stats, 2)) ]
        ab == anonymize_and_build_prompt(
                  r.table, r.database, r.schema, r.source_platform,
                  r.source_project, r.target_warehouse, truncated, "monthly")
    IN  [ stats |-> truncated, prompt_monthly |-> ab.prompt,
          reverse_map |-> ab.reverse_map, forward_map |-> ab.forward_map ]

\* the except clause up to the monthly generator call: the bundle with
\* monthly_stats and partition_stats cut to their last two entries, and the
\* monthly prompt and maps built from it (rev is the weekly reverse map)
degrade(r, st, rev) ==
    LET monthly_stats == st.monthly_stats
        partition_stats == st.partition_stats
        truncated ==
            [ st EXCEPT
                !.monthly_stats = IF Len(monthly_stats) > 2
                                  THEN LastN(monthly_stats, 2) ELSE monthly_stats,
                !.partition_stats = IF Len(partition_stats) > 2
                                    THEN LastN(partition_stats, 2) ELSE partition_stats ]
        ab == anonymize_and_build_prompt(
                  r.table, r.database, r.schema, r.source_platform,
                  r.source_project, r.target_warehouse, truncated, "monthly")
    IN  [ stats |-> truncated, prompt_monthly |-> ab.prompt,
          reverse_map |-> ab.reverse_map, forward_map |-> ab.forward_map ]

(***************************************************************************)
(* Inputs of one advisory request                                          *)
(***************************************************************************)
\* largest number of buckets in a statistics list of the bundle
MaxBuckets == 3

WeekStarts == << "2024-01-01", "2024-01-08", "2024-01-15", "2024-01-22", "2024-01-29" >>
MonthStarts == << "2023-10", "2023-11", "2023-12", "2024-01", "2024-02" >>

WeeklySeries(n) ==
    [ i \in 1..n |-> [ time_key |-> "week_start", start |-> WeekStarts[i],
                       total_queries |-> i + 1, star_queries |-> i % 2 ] ]

MonthlySeries(n) ==
    [ i \in 1..n |-> [ time_key |-> "month_start", start |-> MonthStarts[i],
                       total_queries |-> 2 * i, star_queries |-> 1 ] ]

\* the column statistics of the buckets, as calculate_weekly_partition_stats
\* emits them (columns and filter types ascending)
BucketColumns ==
    << << [ column |-> "cust_id",
            filter_types |-> << [filter_type |-> "JOIN", total_count |-> 2] >> ] >>,
       << [ column |-> "created_at",
            filter_types |-> << [filter_type |-> "WHERE", total_count |-> 3] >> ] >>,
       << [ column |-> "created_at",
            filter_types |-> << [filter_type |-> "ORDER_BY", total_count |-> 1],
                                [filter_type |-> "WHERE", total_count |-> 1] >> ],
          [ column |-> "id",
            filter_types |-> << [filter_type |-> "GROUP_BY", total_count |-> 2] >> ] >> >>

PartitionSeries(n) ==
    [ i \in 1..n |-> [ time_key |-> "week_start", start |-> WeekStarts[i],
                       columns |-> BucketColumns[((i - 1) % 3) + 1] ] ]

MetadataChoices ==
    { NoMetadata,
      [ present |-> TRUE, size_bytes |-> 1048576, row_count |-> 100,
        columns |-> [ kind |-> "list", valid |-> TRUE,
                      items |-> << [isdict |-> TRUE, name |-> "id", type |-> "INTEGER"],
                                   [isdict |-> TRUE, name |-> "status", type |-> "STRING"] >> ] ],
      [ present |-> TRUE, size_bytes |-> 1048576, row_count |-> 100,
        columns |-> [ kind |-> "list", valid |-> TRUE,
                      items |-> << [isdict |-> FALSE, name |-> "status", type |-> ""],
                                   [isdict |-> TRUE, name |-> "", type |-> "STRING"] >> ] ],
      [ present |-> TRUE, size_bytes |-> 2097152, row_count |-> 7,
        columns |-> [ kind |-> "json", valid |-> TRUE,
                      items |-> << [isdict |-> TRUE, name |-> "id", type |-> "INTEGER"],
                                   [isdict |-> TRUE, name |-> "created_at", type |-> "TIMESTAMP"] >> ] ],
      [ present |-> TRUE, size_bytes |-> 2097152, row_count |-> 7,
        columns |-> [ kind |-> "json", valid |-> FALSE, items |-> << >> ] ] }

\* the bundle find_patterns hands to query_ai_with_fallback: weekly
\* get_table_stats plus the monthly series
StatsBundle(nw, nm, metadata) ==
    [ weekly_stats |-> WeeklySeries(nw),
      monthly_stats |-> MonthlySeries(nm),
      partition_stats |-> PartitionSeries(nw),
      table_metadata |-> metadata,
      summary |-> [ total_weeks |-> nw,
                    total_queries |-> SumSeq(WeeklySeries(nw), "total_queries"),
                    total_star_queries |-> SumSeq(WeeklySeries(nw), "star_queries") ] ]

Requests ==
    [ table : {"orders", "id"}, database : {"sales"}, schema : {"public", "sales"},
      source_platform : {"bigquery"}, source_project : {"acme", "status"},
      target_warehouse : {"", "BigQuery"}, api_key : {"secret"} ]
    \cup
    { [ table |-> "orders", database |-> "sales", schema |-> "public",
        source_platform |-> "snowflake", source_project |-> "acme",
        target_warehouse |-> "Snowflake", api_key |-> "" ],
      \* a table named like a column that only its oldest bucket filters on
      [ table |-> "cust_id", database |-> "sales", schema |-> "public",
        source_platform |-> "bigquery", source_project |-> "acme",
        target_warehouse |-> "BigQuery", api_key |-> "secret" ] }

(***************************************************************************)
(* What the generator may answer.  A text answer speaks about the request  *)
(* in the names the prompt gave it: an answer pattern is a sequence of     *)
(* parts, a part being literal text or a reference to one identifier of    *)
(* the request (ref = TRUE, s the role).                                   *)
(***************************************************************************)
Lit(t) == [ref |-> FALSE, s |-> t]
Ref(role) == [ref |-> TRUE, s |-> role]

AnswerPatterns ==
    << << Lit("Partition "), Ref("table"), Lit(" BY "), Ref("column"), Lit(".") >>,
       << Lit("FROM "), Ref("database"), Lit("."), Ref("schema"), Lit("."),
          Lit(BACKTICK), Ref("table"), Lit(BACKTICK), Lit(", source '"),
          Ref("project"), Lit("' on \""), Ref("platform"), Lit("\"") >>,
       << Ref("table"), Lit(" "), Ref("column"), Lit(","), Ref("project"), Lit(";"),
          Ref("table") >> >>

Roles == {"table", "database", "schema", "platform", "project", "column"}

\* the pattern with every reference replaced by names[role]
RECURSIVE Instantiate(_, _)
Instantiate(parts, names) ==
    IF parts = << >> THEN ""
    ELSE (IF parts[1].ref THEN names[parts[1].s] ELSE parts[1].s)
         \o Instantiate(Tail(parts), names)

\* the identifiers of a request; the column is the first of the columns
\* known for the table ("" when there is none)
OriginalNames(r, st) ==
    LET cols == sorted(columns_from_stats(st.partition_stats)
                         \cup columns_from_metadata(st.table_metadata))
    IN  [ role \in Roles |->
            CASE role = "table" -> r.table
              [] role = "database" -> r.database
              [] role = "schema" -> r.schema
              [] role = "platform" -> r.source_platform
              [] role = "project" -> r.source_project
              [] role = "column" -> IF cols = << >> THEN "" ELSE cols[1] ]

\* the same identifiers as tokens of a forward map
TokenNames(names, fwd) ==
    [ role \in Roles |-> IF names[role] = "" THEN "" ELSE DictGet(fwd, names[role]) ]

GeneratorErrors ==
    { [kind |-> "overload", msg |-> "503 UNAVAILABLE. The model is overloaded."],
      [kind |-> "timeout",  msg |-> "The read operation timed out"],
      [kind |-> "other",    msg |-> "429 RESOURCE_EXHAUSTED. Quota exceeded."] }

(***************************************************************************)
(* State of one find_patterns request from the call of                     *)
(* query_ai_with_fallback on                                               *)
(***************************************************************************)
VARIABLES
    req,            \* the request: identifiers, target warehouse, API key
    stats0,         \* the statistics bundle as find_patterns built it
    stats,          \* the bundle (a dict the orchestrator updates in place)
    pc,             \* "received", "start", "weekly_call", "fallback", "monthly_call",
                    \* "returned", "raised", "done"
    prompt,         \* the weekly prompt
    prompt_monthly, \* the monthly prompt
    forward_map,    \* forward map of the last anonymize_and_build_prompt
    reverse_map,    \* the orchestrator's reverse_map
    attempt,        \* loop variable of query_gemini_ai
    sleeps,         \* the time.sleep delays of the current query_gemini_ai call
    tier_log,       \* the tiers query_gemini_ai was called for, in order
    last_attempt,   \* what the last generator attempt met and did
    error,          \* message of the exception last raised
    result,         \* what query_ai_with_fallback returned or raised
    response,       \* the payload find_patterns answers with
    storage_reads,  \* the get_table_stats calls find_patterns has made
    issued,         \* the tokens handed out, one batch per request anonymized
    batch,          \* the query records load_queries gave the analyzer
    progress,       \* per analyzer method, the records of batch it has done
    results,        \* per analyzer method, its results list
    facts,          \* the facts storage holds, as it returns them
    agg,            \* per period, the last result of get_table_stats (<< >>: none)
    agg_prev,       \* per period, the result of get_table_stats before that
    store,          \* per fact table of DuckDBStorage, its rows in insertion order
    saved,          \* the last save_* call: its table, its data, the calls so far
    advice,         \* a recommend call: the analyzer's platform, the argument, the outcome
    lookup          \* a find_table_metadata call: load_tables' rows, the key, the result

vars == << req, stats0, stats, pc, prompt, prompt_monthly, forward_map, reverse_map,
           attempt, sleeps, tier_log, last_attempt, error, result, response,
           storage_reads, issued, batch, progress, results, facts, agg, agg_prev,
           store, saved, advice, lookup >>

\* the variables of the analyzer and of the aggregation, which a
\* find_patterns request leaves alone
analyzer_vars == << batch, progress, results >>
aggregation_vars == << facts, agg, agg_prev >>
\* the variables of the storage and of the services outside a request
service_vars == << store, saved, advice, lookup >>

NoAttempt ==
    [ tier |-> "", n |-> 0, kind |-> "", pattern |-> 0, text |-> "",
      action |-> "", slept |-> 0 ]
NoResponse == [ sent |-> FALSE, success |-> FALSE, status |-> 0,
                ai_suggestions |-> "", error |-> "" ]

\* Every request is tried with the fullest bundle, and every bundle with one
\* plain request.
PlainRequest ==
    [ table |-> "orders", database |-> "sales", schema |-> "public",
      source_platform |-> "bigquery", source_project |-> "acme",
      target_warehouse |-> "BigQuery", api_key |-> "secret" ]

FullMetadata ==
    CHOOSE md \in MetadataChoices :
        md.present /\ md.columns.kind = "list" /\ md.columns.items[1].isdict

(***************************************************************************)
(* The checks find_patterns makes before it reads anything.  A response    *)
(* is the body and the status json_response builds; a key json_response    *)
(* leaves out because its value is falsy reads "" here, and the data of a  *)
(* find_patterns answer is its ai_suggestions.  A validator returns        *)
(* NoResponse for None.                                                    *)
(***************************************************************************)
TOP_DATA_WAREHOUSES ==
    << "BigQuery", "Snowflake", "Redshift", "Databricks", "ClickHouse",
       "Azure Synapse Analytics", "Oracle Autonomous Data Warehouse",
       "Amazon S3 + Athena", "Delta Lake", "Apache Hudi", "Apache Iceberg",
       "Teradata Vantage", "IBM Db2 Warehouse", "SAP Data Warehouse Cloud",
       "Vertica" >>

json_response(success, err, data, status_code) ==
    [ sent |-> TRUE, success |-> success, status |-> status_code,
      ai_suggestions |-> data, error |-> err ]

\* ', '.join(names)
RECURSIVE JoinNames(_)
JoinNames(names) ==
    IF names = << >> THEN ""
    ELSE IF Len(names) = 1 THEN names[1]
    ELSE names[1] \o ", " \o JoinNames(Tail(names))

\* params is the dict of the given values, param_names the names to look for
validate_required_params(params, param_names) ==
    LET missing == SelectSeq(param_names, LAMBDA name : params[name] = "")
    IN  IF missing # << >>
        THEN json_response(FALSE,
                 "Missing required parameters: " \o JoinNames(missing), "", 400)
        ELSE NoResponse

validate_table_params(source_platform, source_project, database, schema, table) ==
    validate_required_params(
        [ source_platform |-> source_platform, source_project |-> source_project,
          database |-> database, schema |-> schema, table |-> table ],
        << "source_platform", "source_project", "database", "schema", "table" >>)

\* validate_target_warehouse that takes any name for a warehouse
validate_target_warehouse_takes_any(target_warehouse) == NoResponse

validate_target_warehouse(target_warehouse) ==
    IF /\ target_warehouse # ""
       /\ \A i \in 1..Len(TOP_DATA_WAREHOUSES) : TOP_DATA_WAREHOUSES[i] # target_warehouse
    THEN json_response(FALSE,
             "Invalid target_warehouse. Must be one of: "
                 \o JoinNames(TOP_DATA_WAREHOUSES), "", 400)
    ELSE NoResponse

\* Requests find_patterns turns away: an identifier left out, two left out,
\* a warehouse not in the list (the list is matched by case), and both.
BadRequests ==
    { [PlainRequest EXCEPT ![f] = ""] :
        f \in {"source_platform", "source_project", "database", "schema", "table"} }
    \cup { [PlainRequest EXCEPT !.schema = "", !.table = ""],
           [PlainRequest EXCEPT !.target_warehouse = "bigquery"],
           [PlainRequest EXCEPT !.target_warehouse = "InvalidWarehouse"],
           [PlainRequest EXCEPT !.table = "", !.target_warehouse = "InvalidWarehouse"] }

\* the bundle variable before get_table_stats has been called
NoStats == StatsBundle(0, 0, NoMetadata)

\* a request has arrived at find_patterns; stats0 is the bundle storage
\* holds for its table
RequestInit ==
    /\ \E r \in Requests \cup BadRequests, nw \in 0..MaxBuckets, nm \in 0..MaxBuckets,
          md \in MetadataChoices :
          /\ r = PlainRequest \/ (nw = MaxBuckets /\ nm = MaxBuckets /\ md = FullMetadata)
          /\ req = r
          /\ stats0 = StatsBundle(nw, nm, md)
    /\ stats = NoStats
    /\ storage_reads = 0
    /\ pc = "received"
    /\ prompt = NoPrompt
    /\ prompt_monthly = NoPrompt
    /\ forward_map = << >>
    /\ reverse_map = << >>
    /\ attempt = 0
    /\ sleeps = << >>
    /\ tier_log = << >>
    /\ last_attempt = NoAttempt
    /\ error = ""
    /\ result = NoResult
    /\ response = NoResponse

\* nothing anonymized, no batch given to the analyzer, no facts aggregated
TokenIdle == issued = << >>
AnalyzerIdle ==
    /\ batch = << >>
    /\ progress = [ read |-> 0, star |-> 0, candidates |-> 0 ]
    /\ results = [ read |-> << >>, star |-> << >>, candidates |-> << >> ]
AggregationIdle ==
    /\ facts = [ read_queries |-> << >>, star_queries |-> << >>,
                 partition_candidates |-> << >> ]
    /\ agg = [ weekly |-> << >>, monthly |-> << >> ]
    /\ agg_prev = [ weekly |-> << >>, monthly |-> << >> ]

NoOutcome == [ raised |-> FALSE, error |-> "", value |-> << >> ]
NoAdvice == [ platform |-> "", column_filter_stats |-> << >>, called |-> FALSE,
              outcome |-> NoOutcome ]

NoLookup == [ tables |-> << >>, key |-> << >>, called |-> FALSE, found |-> << >> ]

FactTables == { "read_table_queries", "select_star_queries", "partition_candidates" }

\* the fact tables as __init__ creates them, and no save_* call made
ServiceIdle ==
    /\ store = [ name \in FactTables |-> << >> ]
    /\ saved = [ name |-> "", data |-> << >>, calls |-> 0 ]
    /\ advice = NoAdvice
    /\ lookup = NoLookup

Init == RequestInit /\ TokenIdle /\ AnalyzerIdle /\ AggregationIdle /\ ServiceIdle

\* the tier of the query_gemini_ai call in progress
Tier == IF pc = "weekly_call" THEN "weekly" ELSE "monthly"

\* what generate_content may do on an attempt in the current state
Outcomes ==
    LET names == TokenNames(OriginalNames(req, stats), forward_map)
        Answer(kind, i, text, cand) ==
            [ kind |-> kind, pattern |-> i, raises |-> FALSE, msg |-> "",
              is_none |-> FALSE, text |-> text, candidate_text |-> cand ]
    IN  { Answer("text", i, Instantiate(AnswerPatterns[i], names), "") :
            i \in 1..Len(AnswerPatterns) }
        \cup { Answer("text", 1, "", Instantiate(AnswerPatterns[1], names)) }
        \cup { Answer("empty", 0, "", "") }
        \cup { [ kind |-> "none", pattern |-> 0, raises |-> FALSE, msg |-> "",
                 is_none |-> TRUE, text |-> "", candidate_text |-> "" ] }
        \cup { [ kind |-> e.kind, pattern |-> 0, raises |-> TRUE, msg |-> e.msg,
                 is_none |-> FALSE, text |-> "", candidate_text |-> "" ] :
               e \in GeneratorErrors }

\* query_ai_with_fallback up to the weekly call of query_gemini_ai, whose
\* API-key check raises before the first attempt
\* find_patterns up to the call of query_ai_with_fallback: the two checks,
\* then get_table_stats for the weekly and for the monthly range
ReceiveRequest ==
    /\ pc = "received"
    /\ \E v \in { validate_table_params(req.source_platform, req.source_project,
                                         req.database, req.schema, req.table) },
          w \in { validate_target_warehouse(req.target_warehouse) } :
          IF v.sent \/ w.sent
          THEN /\ response' = (IF v.sent THEN v ELSE w)
               /\ pc' = "done"
               /\ UNCHANGED << stats, storage_reads >>
          ELSE /\ stats' = stats0
               /\ storage_reads' = storage_reads + 2
               /\ pc' = "start"
               /\ UNCHANGED response
    /\ UNCHANGED << req, stats0, prompt, prompt_monthly, forward_map, reverse_map,
                    attempt, sleeps, tier_log, last_attempt, error, result, issued,
                    analyzer_vars, aggregation_vars, service_vars >>

BuildWeeklyPrompt ==
    /\ pc = "start"
    /\ \E ab \in { anonymize_and_build_prompt(
                        req.table, req.database, req.schema, req.source_platform,
                        req.source_project, req.target_warehouse, stats, "weekly") } :
           /\ prompt' = ab.prompt
           /\ reverse_map' = ab.reverse_map
           /\ forward_map' = ab.forward_map
    /\ tier_log' = Append(tier_log, "weekly")
    /\ attempt' = 0
    /\ sleeps' = << >>
    /\ IF req.api_key = ""
       THEN /\ pc' = "fallback"
            /\ error' = "Gemini API key not configured in config.json"
       ELSE /\ pc' = "weekly_call"
            /\ error' = error
    /\ UNCHANGED << req, stats0, stats, prompt_monthly, last_attempt, result, response,
                    storage_reads, issued, analyzer_vars, aggregation_vars, service_vars >>

\* one iteration of the retry loop of query_gemini_ai and, when it ends the
\* call, what query_ai_with_fallback does with the text or the exception
GeminiAttempt ==
    /\ pc \in {"weekly_call", "monthly_call"}
    /\ \E outcome \in Outcomes :
         \E r \in { gemini_attempt(outcome, attempt) } :
         \E after \in { after_call(Tier, r, reverse_map) } :
             /\ last_attempt' = [ tier |-> Tier, n |-> attempt + 1, kind |-> outcome.kind,
                                  pattern |-> outcome.pattern, text |-> r.text,
                                  action |-> r.action, slept |-> r.delay ]
             /\ IF r.action = "retry"
                THEN /\ sleeps' = Append(sleeps, r.delay)
                     /\ attempt' = attempt + 1
                     /\ UNCHANGED << pc, error, result >>
                ELSE /\ pc' = after.pc
                     /\ error' = after.error
                     /\ result' = IF after.pc = "fallback" THEN result ELSE after.result
                     /\ UNCHANGED << sleeps, attempt >>
    /\ UNCHANGED << req, stats0, stats, prompt, prompt_monthly, forward_map,
                    reverse_map, tier_log, response, storage_reads, issued,
                    analyzer_vars, aggregation_vars, service_vars >>

\* the except branch of query_ai_with_fallback up to the monthly call of
\* query_gemini_ai, whose API-key check raises before the first attempt
DegradeToMonthly ==
    /\ pc = "fallback"
    /\ \E d \in { degrade(req, stats, reverse_map) } :
           /\ stats' = d.stats
           /\ prompt_monthly' = d.prompt_monthly
           /\ reverse_map' = d.reverse_map
           /\ forward_map' = d.forward_map
    /\ tier_log' = Append(tier_log, "monthly")
    /\ attempt' = 0
    /\ sleeps' = << >>
    /\ IF req.api_key = ""
       THEN /\ pc' = "raised"
            /\ error' = "Gemini API key not configured in config.json"
            /\ result' = [ kind |-> "error", text |-> "", reverse_map |-> << >>,
                           error |-> "Gemini API key not configured in config.json" ]
       ELSE /\ pc' = "monthly_call"
            /\ error' = ""
            /\ result' = result
    /\ last_attempt' = NoAttempt
    /\ UNCHANGED << req, stats0, prompt, response, storage_reads, issued,
                    analyzer_vars, aggregation_vars, service_vars >>

\* find_patterns after query_ai_with_fallback returned
RespondSuccess ==
    /\ pc = "returned"
    /\ pc' = "done"
    /\ response' = [ sent |-> TRUE, success |-> TRUE, status |-> 200,
                     ai_suggestions |->
                        restore_names_in_response(result.text, result.reverse_map),
                     error |-> "" ]
    /\ UNCHANGED << req, stats0, stats, prompt, prompt_monthly, forward_map,
                    reverse_map, attempt, sleeps, tier_log, last_attempt, error, result,
                    storage_reads, issued, analyzer_vars, aggregation_vars, service_vars >>

\* find_patterns after query_ai_with_fallback raised
RespondError ==
    /\ pc = "raised"
    /\ pc' = "done"
    /\ response' = [ sent |-> TRUE, success |-> FALSE, status |-> 500,
                     ai_suggestions |-> "", error |-> result.error ]
    /\ UNCHANGED << req, stats0, stats, prompt, prompt_monthly, forward_map,
                    reverse_map, attempt, sleeps, tier_log, last_attempt, error, result,
                    storage_reads, issued, analyzer_vars, aggregation_vars, service_vars >>

Next ==
    \/ ReceiveRequest
    \/ BuildWeeklyPrompt
    \/ GeminiAttempt
    \/ DegradeToMonthly
    \/ RespondSuccess
    \/ RespondError

Spec == Init /\ [][Next]_vars

\* the retry loop seen for one request: the loop reads nothing of the request
\* but the prompt and the key
GeneratorInit == Init /\ req = PlainRequest /\ stats0.table_metadata = FullMetadata

\* the loop runs on: time.sleep returns, and generate_content returns or
\* raises
FairSpec ==
    GeneratorInit /\ [][Next]_vars /\ WF_vars(ReceiveRequest) /\ WF_vars(GeminiAttempt)

(***************************************************************************)
(* Token generation over several requests.  Each request anonymized adds   *)
(* one batch to issued: every (class, name) handed to token generation     *)
(* with the token that came back.                                          *)
(***************************************************************************)
MaxRequests == 2

\* the token generation build_complete_anonymization_map runs for a request:
\* in anonymize_data_for_ai the table and then every column of all_columns,
\* those of the partition statistics and those of the table metadata, each
\* written into reverse_mapping; the four entities in the loop of
\* anonymize_entities
TokensOf(r, st) ==
    LET d == anonymize_data_for_ai(r.table, st.partition_stats, << >>,
                                   st.table_metadata)
        Entity(name, prefix) ==
            [ class |-> prefix, name |-> name,
              token |-> anonymize_entity(name, prefix)[1] ]
    IN  { [ class |-> "TBL", name |-> r.table, token |-> d.anon_table ] }
        \cup { [ class |-> "COL", name |-> d.reverse_mapping[i].v,
                 token |-> d.reverse_mapping[i].k ] :
               i \in 2..Len(d.reverse_mapping) }
        \cup { Entity(r.database, "DB"), Entity(r.schema, "SCH"),
               Entity(r.source_platform, "PLATFORM"),
               Entity(r.source_project, "PROJECT") }

AnonymizeRequest ==
    /\ Len(issued) < MaxRequests
    /\ \E r \in Requests, n \in {0, MaxBuckets} :
          issued' = Append(issued, TokensOf(r, StatsBundle(n, n, FullMetadata)))
    /\ UNCHANGED << req, stats0, stats, pc, prompt, prompt_monthly, forward_map,
                    reverse_map, attempt, sleeps, tier_log, last_attempt, error,
                    result, response, storage_reads, analyzer_vars, aggregation_vars, service_vars >>

TokenInit ==
    Init /\ req = PlainRequest /\ stats0 = StatsBundle(MaxBuckets, MaxBuckets, FullMetadata)

TokenNext == AnonymizeRequest

TokenSpec == TokenInit /\ [][TokenNext]_vars

IssuedRecords == UNION { issued[i] : i \in 1..Len(issued) }

\* C7: token generation is deterministic and class-namespaced: the same
\* string in the same class gets the same token, within a request and across
\* requests, and the same string in two classes gets two different tokens.
C7_TokensDeterministicPerClass ==
    \A a \in IssuedRecords, b \in IssuedRecords :
        a.name = b.name => (a.token = b.token <=> a.class = b.class)

\* two requests anonymized: one string as database and schema of one
\* request, one string as table of a request and column of the other, and
\* the database of both
C7_Witness ==
    /\ Len(issued) = 2
    /\ \E a \in issued[1], b \in issued[1] :
          a.name = b.name /\ a.class = "DB" /\ b.class = "SCH"
    /\ \E a \in issued[1], b \in issued[2] :
          a.name = b.name /\ a.class = "TBL" /\ b.class = "COL"
    /\ \E a \in issued[1], b \in issued[2] :
          a.name = b.name /\ a.class = "DB" /\ b.class = "DB"

(***************************************************************************)
(* Properties of the Advisory Orchestrator                                 *)
(***************************************************************************)
InCall == pc \in {"weekly_call", "monthly_call"}

\* the reverse map of a tier, from the bundle find_patterns built
WeeklyMapOf(r, st0) ==
    build_complete_anonymization_map(
        r.table, r.database, r.schema, r.source_platform, r.source_project,
        st0.partition_stats, st0.table_metadata).reverse_map

MonthlyMapOf(r, st0) ==
    build_complete_anonymization_map(
        r.table, r.database, r.schema, r.source_platform, r.source_project,
        LastN(st0.partition_stats, 2), st0.table_metadata).reverse_map

\* C1: when the weekly tier failed and the monthly generator call returns a
\* text, query_ai_with_fallback returns that text together with the reverse
\* map of the monthly anonymization, built from the truncated partition
\* statistics.
C1_MonthlyTextWithMonthlyMap ==
    (tier_log = << "weekly", "monthly" >> /\ last_attempt.tier = "monthly"
        /\ last_attempt.action = "return")
    => /\ pc \in {"returned", "done"}
       /\ result.kind = "text"
       /\ result.text = last_attempt.text
       /\ result.text # ""
       /\ result.reverse_map = MonthlyMapOf(req, stats0)

\* a monthly answer was returned where the two tiers' maps differ
C1_Witness ==
    /\ pc = "returned"
    /\ tier_log = << "weekly", "monthly" >>
    /\ last_attempt.action = "return"
    /\ result.reverse_map # WeeklyMapOf(req, stats0)

\* C2: when the weekly generator call returns a text, query_ai_with_fallback
\* returns exactly that text with the weekly reverse map, and the monthly
\* tier is never entered: no monthly prompt, no second generator call, the
\* bundle untouched.
C2_WeeklySuccessEndsTheCall ==
    (last_attempt.tier = "weekly" /\ last_attempt.action = "return")
    => /\ pc \in {"returned", "done"}
       /\ result.kind = "text"
       /\ result.text = last_attempt.text
       /\ result.reverse_map = WeeklyMapOf(req, stats0)
       /\ tier_log = << "weekly" >>
       /\ prompt_monthly = NoPrompt
       /\ stats = stats0
       /\ storage_reads = 2

\* the weekly answer came on the third attempt and was passed on
C2_Witness ==
    /\ pc = "done"
    /\ last_attempt.tier = "weekly"
    /\ last_attempt.action = "return"
    /\ last_attempt.n = 3
    /\ response.success

Rank(p) ==
    CASE p = "received" -> 0
      [] p = "start" -> 0
      [] p = "weekly_call" -> 1
      [] p = "fallback" -> 2
      [] p = "monthly_call" -> 3
      [] p \in {"returned", "raised"} -> 4
      [] p = "done" -> 5

C3_States ==
    /\ tier_log \in { << >>, << "weekly" >>, << "weekly", "monthly" >> }
    /\ (last_attempt.tier = "monthly" /\ last_attempt.action = "raise")
         => /\ pc \in {"raised", "done"}
            /\ result.kind = "error"
            /\ result.text = ""
            /\ result.error # ""
    /\ pc = "raised" => result.kind = "error" /\ tier_log = << "weekly", "monthly" >>
    /\ (pc = "done" /\ result.kind = "error") => ~response.success

C3_Steps ==
    /\ Rank(pc') >= Rank(pc)
    /\ tier_log' # tier_log
         => \/ tier_log = << >> /\ tier_log' = << "weekly" >> /\ pc = "start"
            \/ /\ tier_log = << "weekly" >> /\ tier_log' = << "weekly", "monthly" >>
               /\ pc = "fallback" /\ error # "" /\ result.kind = "none"
    /\ result.kind # "none" => result' = result

\* C3: the tiers are linear: the generator call unit is invoked at most
\* twice, weekly first and monthly only out of a weekly failure; a monthly
\* failure ends the call with an error and no text result; no step leads
\* back.
C3_LinearTiers == []C3_States /\ [][C3_Steps]_vars

\* both tiers failed and the error reached the caller
C3_Witness ==
    /\ pc = "done"
    /\ tier_log = << "weekly", "monthly" >>
    /\ last_attempt.tier = "monthly"
    /\ last_attempt.action = "raise"
    /\ last_attempt.n = 3
    /\ ~response.success

C4_States ==
    /\ attempt \in 0..2
    /\ last_attempt.n <= 3
    /\ sleeps \in { << >>, << 2 >>, << 2, 4 >> }
    /\ InCall => Len(sleeps) = attempt
    /\ last_attempt.action = "retry"
         => /\ last_attempt.n < 3
            /\ InCall
            /\ last_attempt.slept = sleeps[last_attempt.n]
    /\ last_attempt.action \in {"return", "raise"}
         => /\ ~InCall
            /\ last_attempt.slept = 0
            /\ Len(sleeps) = last_attempt.n - 1
    /\ last_attempt.action = "return" => last_attempt.text # ""
    /\ last_attempt.action = "raise" => error # ""

\* C4: a query_gemini_ai call makes at most 3 attempts, sleeps 2 seconds
\* before the second and 4 before the third, never sleeps after the attempt
\* that ends it, and always ends: with a non-empty text or a raised error.
C4_BoundedBackoff == []C4_States /\ (InCall ~> ~InCall)

\* a call ended by the failure of its third attempt, after both waits
C4_Witness ==
    /\ last_attempt.n = 3
    /\ last_attempt.action = "raise"
    /\ last_attempt.kind = "overload"
    /\ sleeps = << 2, 4 >>

\* C5: a failed attempt that is not the last is followed by another attempt
\* exactly when the failure is an overload error or an empty or none
\* response.
C5_RetryIffOverloadEmptyOrNone ==
    (last_attempt.n \in {1, 2} /\ last_attempt.action \in {"retry", "raise"})
    => (last_attempt.action = "retry"
          <=> last_attempt.kind \in {"overload", "empty", "none"})

\* C6 as claimed: a timeout on attempt 1 or 2 gets the backoff wait and a
\* further attempt, like an overload error.
C6_TimeoutRetriedLikeOverload ==
    (last_attempt.kind = "timeout" /\ last_attempt.n \in {1, 2})
    => /\ last_attempt.action = "retry"
       /\ last_attempt.slept = (IF last_attempt.n = 1 THEN 2 ELSE 4)

\* C6 as amended: a timeout whose message carries no overload marker ends the
\* call on the attempt it happens on: raised with no wait and no further
\* attempt.
C6_TimeoutRaisedAtOnce ==
    last_attempt.kind = "timeout"
    => /\ last_attempt.action = "raise"
       /\ last_attempt.slept = 0
       /\ Len(sleeps) = last_attempt.n - 1
       /\ ~InCall
       /\ Contains(error, "timed out")

\* a timeout met on the second attempt
C6_Witness ==
    /\ last_attempt.kind = "timeout"
    /\ last_attempt.n = 2
    /\ pc = "fallback"

(***************************************************************************)
(* Properties of the Anonymizer                                            *)
(***************************************************************************)
\* C8: the forward and the reverse map of build_complete_anonymization_map
\* are exact inverses of the same size, also when one original string
\* occurs in two roles.
C8_MapsExactInverses ==
    pc # "start"
    => /\ Len(forward_map) = Len(reverse_map)
       /\ \A i \in 1..Len(reverse_map) :
             /\ DictHas(forward_map, reverse_map[i].v)
             /\ DictGet(forward_map, reverse_map[i].v) = reverse_map[i].k
       /\ \A i \in 1..Len(forward_map) :
             /\ DictHas(reverse_map, forward_map[i].v)
             /\ DictGet(reverse_map, forward_map[i].v) = forward_map[i].k

\* C9: an answer that names the identifiers of the request by their
\* forward-map tokens, set apart by non-identifier characters, is restored
\* to the same answer in the original names, and no token of the reverse map
\* is left in it in any case.
C9_RestoreRoundTrip ==
    response.success
    => /\ response.ai_suggestions =
             Instantiate(AnswerPatterns[last_attempt.pattern], OriginalNames(req, stats))
       /\ \A i \in 1..Len(result.reverse_map) :
             ~Contains(lower(response.ai_suggestions), lower(result.reverse_map[i].k))

\* an answer with quoted tokens and keyword-prefixed tokens was restored, for
\* a request whose database and schema are one string
C9_Witness ==
    /\ pc = "done"
    /\ response.success
    /\ last_attempt.pattern = 2
    /\ req.database = req.schema
    /\ Contains(response.ai_suggestions, BACKTICK \o req.table \o BACKTICK)

IsTokenOf(tok, name, rev) == DictHas(rev, tok) /\ DictGet(rev, tok) = name

\* every original name the request and its bundle carry
Originals ==
    ({ req.table, req.database, req.schema, req.source_platform, req.source_project }
        \cup columns_from_stats(stats0.partition_stats)
        \cup columns_from_metadata(stats0.table_metadata)) \ {""}

\* the prompt p, built from the buckets ps with the reverse map rev, carries
\* tokens in its identifier slots and no original name
PromptAnonymous(p, ps, rev) ==
    LET toks == DictKeys(rev)
        md == IF stats0.table_metadata.present
              THEN metadata_columns(stats0.table_metadata) ELSE << >>
    IN  /\ \A o \in Originals :
             /\ ~Contains(p.table_line, o)
             /\ ~Contains(p.source_line, o)
             /\ ~Contains(p.col_list, o)
             /\ o \notin columns_from_stats(p.partition_stats)
             /\ \A i \in 1..Len(p.top_filters) : ~Contains(p.top_filters[i], o)
        /\ \E td \in toks, ts \in toks, tt \in toks :
             /\ IsTokenOf(td, req.database, rev)
             /\ IsTokenOf(ts, req.schema, rev)
             /\ IsTokenOf(tt, req.table, rev)
             /\ p.table_line = td \o "." \o ts \o "." \o tt
        /\ \E tp \in toks, tj \in toks :
             /\ IsTokenOf(tp, req.source_platform, rev)
             /\ IsTokenOf(tj, req.source_project, rev)
             /\ p.source_line = tp \o " / " \o tj
        /\ Len(p.partition_stats) = Len(ps)
        /\ \A i \in 1..Len(ps) :
             /\ Len(p.partition_stats[i].columns) = Len(ps[i].columns)
             /\ \A j \in 1..Len(ps[i].columns) :
                   IsTokenOf(p.partition_stats[i].columns[j].column,
                             ps[i].columns[j].column, rev)
        /\ p.n_columns = Len(md)
        /\ \A i \in 1..Len(md) :
             md[i].name # ""
             => \E t \in toks :
                   /\ IsTokenOf(t, md[i].name, rev)
                   /\ Contains(p.col_list, t \o " (")

\* C10: no original table, database, schema, platform, project or column
\* name is in the prompt of either tier: each is there as a token the
\* reverse map binds to it, also when two of the names are equal.
C10_PromptsCarryTokensOnly ==
    /\ prompt.built
         => PromptAnonymous(prompt, stats0.partition_stats, WeeklyMapOf(req, stats0))
    /\ prompt_monthly.built
         => PromptAnonymous(prompt_monthly, LastN(stats0.partition_stats, 2),
                            MonthlyMapOf(req, stats0))

\* both prompts built for a request whose project is named like a column of
\* the table
C10_Witness ==
    /\ prompt.built
    /\ prompt_monthly.built
    /\ prompt.has_table_info
    /\ req.source_project \in columns_from_metadata(stats0.table_metadata)
    /\ Len(prompt.partition_stats) > Len(prompt_monthly.partition_stats)
(***************************************************************************)
(* Properties of the find_patterns endpoint                                *)
(***************************************************************************)
MissingIdentifier ==
    \E f \in {"source_platform", "source_project", "database", "schema", "table"} :
        req[f] = ""

UnknownWarehouse ==
    /\ req.target_warehouse # ""
    /\ req.target_warehouse \notin { TOP_DATA_WAREHOUSES[i] : i \in 1..Len(TOP_DATA_WAREHOUSES) }

\* C11: a failure of find_patterns is an explicit error payload.  A request
\* with a missing identifier or a warehouse outside the list is answered 400
\* with success false and an error text, with no get_table_stats call and no
\* generator tier entered; a request whose two tiers both failed is answered
\* 500 with success false and an error text; an answer with success true is
\* a 200 with non-empty ai_suggestions.
C11_FailureIsExplicit ==
    /\ ((MissingIdentifier \/ UnknownWarehouse) /\ pc # "received")
       => /\ pc = "done"
          /\ response.sent /\ ~response.success /\ response.status = 400
          /\ response.error # ""
          /\ storage_reads = 0 /\ stats = NoStats
          /\ tier_log = << >> /\ last_attempt = NoAttempt /\ prompt = NoPrompt
    /\ (pc = "done" /\ result.kind = "error")
       => /\ tier_log = << "weekly", "monthly" >>
          /\ response.sent /\ ~response.success /\ response.status = 500
          /\ response.error # ""
    /\ (response.sent /\ response.success)
       => /\ response.status = 200
          /\ response.ai_suggestions # ""
    /\ (response.sent /\ ~response.success)
       => response.error # "" /\ response.ai_suggestions = ""
    /\ pc = "done" => response.sent

\* a request naming a warehouse in the wrong case was turned away
C11_Witness ==
    /\ pc = "done"
    /\ ~MissingIdentifier
    /\ req.target_warehouse = "bigquery"
    /\ response.status = 400
    /\ storage_reads = 0

(***************************************************************************)
(* Part 2: the Analyzer (patterns/analyzer/base_analyzer.py)               *)
(*                                                                         *)
(* A parsed statement is its sqlglot tree, written as the sequence of its  *)
(* nodes in the order walk() yields them (breadth first, the arguments of  *)
(* a node in the order the parser sets them: expressions, from, joins,     *)
(* where, group, having, order, with).  A node names its class, its parent *)
(* (0 for the root) and the argument of the parent it sits under.          *)
(* Identifier and TableAlias nodes are folded into their owner: a Table    *)
(* carries name, db, catalog and alias, a Column its name and its table    *)
(* qualifier, a Subquery and a CTE their alias.  No code of the analyzer   *)
(* tests for the two folded classes with a result that depends on them.    *)
(***************************************************************************)
Node(type, parent, key) ==
    [ type |-> type, parent |-> parent, key |-> key, name |-> "", alias |-> "",
      db |-> "", catalog |-> "", table |-> "" ]

TableNode(parent, key, catalog, db, name, alias) ==
    [ Node("Table", parent, key) EXCEPT
        !.catalog = catalog, !.db = db, !.name = name, !.alias = alias ]

ColumnNode(parent, key, table, name) ==
    [ Node("Column", parent, key) EXCEPT !.table = table, !.name = name ]

AliasedNode(type, parent, key, alias) ==
    [ Node(type, parent, key) EXCEPT !.alias = alias ]

\* None in a field of a fact
PyNone == "<None>"

\* the statements of the query log, each with what sqlglot.parse_one makes
\* of it: a tree, or a ParseError
Statements ==
    << [ sql |-> "SELECT * FROM orders o JOIN customers c ON o.cust_id = c.id",
         ok |-> TRUE, error |-> "",
         tree |-> << Node("Select", 0, ""),
                     Node("Star", 1, "expressions"),
                     Node("From", 1, "from"),
                     Node("Join", 1, "joins"),
                     TableNode(3, "this", "", "", "orders", "o"),
                     TableNode(4, "this", "", "", "customers", "c"),
                     Node("EQ", 4, "on"),
                     ColumnNode(7, "this", "o", "cust_id"),
                     ColumnNode(7, "expression", "c", "id") >> ],
       [ sql |-> "SELECT a.* FROM t AS a",
         ok |-> TRUE, error |-> "",
         tree |-> << Node("Select", 0, ""),
                     ColumnNode(1, "expressions", "a", "*"),
                     Node("From", 1, "from"),
                     Node("Star", 2, "this"),
                     TableNode(3, "this", "", "", "t", "a") >> ],
       [ sql |-> "SELECT c.* FROM a JOIN t AS c ON a.id = c.id",
         ok |-> TRUE, error |-> "",
         tree |-> << Node("Select", 0, ""),
                     ColumnNode(1, "expressions", "c", "*"),
                     Node("From", 1, "from"),
                     Node("Join", 1, "joins"),
                     Node("Star", 2, "this"),
                     TableNode(3, "this", "", "", "a", ""),
                     TableNode(4, "this", "", "", "t", "c"),
                     Node("EQ", 4, "on"),
                     ColumnNode(8, "this", "a", "id"),
                     ColumnNode(8, "expression", "c", "id") >> ],
       [ sql |-> "SELECT * FROM (SELECT * FROM t) sub",
         ok |-> TRUE, error |-> "",
         tree |-> << Node("Select", 0, ""),
                     Node("Star", 1, "expressions"),
                     Node("From", 1, "from"),
                     AliasedNode("Subquery", 3, "this", "sub"),
                     Node("Select", 4, "this"),
                     Node("Star", 5, "expressions"),
                     Node("From", 5, "from"),
                     TableNode(7, "this", "", "", "t", "") >> ],
       [ sql |-> "WITH c AS (SELECT id FROM t) SELECT id FROM c WHERE c.id > 1",
         ok |-> TRUE, error |-> "",
         tree |-> << Node("Select", 0, ""),
                     ColumnNode(1, "expressions", "", "id"),
                     Node("From", 1, "from"),
                     Node("Where", 1, "where"),
                     Node("With", 1, "with"),
                     TableNode(3, "this", "", "", "c", ""),
                     Node("GT", 4, "this"),
                     AliasedNode("CTE", 5, "expressions", "c"),
                     ColumnNode(7, "this", "c", "id"),
                     Node("Literal", 7, "expression"),
                     Node("Select", 8, "this"),
                     ColumnNode(11, "expressions", "", "id"),
                     Node("From", 11, "from"),
                     TableNode(13, "this", "", "", "t", "") >> ],
       [ sql |-> "WITH c AS (SELECT 1 AS n) SELECT n FROM c",
         ok |-> TRUE, error |-> "",
         tree |-> << Node("Select", 0, ""),
                     ColumnNode(1, "expressions", "", "n"),
                     Node("From", 1, "from"),
                     Node("With", 1, "with"),
                     TableNode(3, "this", "", "", "c", ""),
                     AliasedNode("CTE", 4, "expressions", "c"),
                     Node("Select", 6, "this"),
                     AliasedNode("Alias", 7, "expressions", "n"),
                     Node("Literal", 8, "this") >> ],
       [ sql |-> "SELECT t.a, SUM(t.b) FROM t GROUP BY t.a HAVING SUM(t.b) > 1",
         ok |-> TRUE, error |-> "",
         tree |-> << Node("Select", 0, ""),
                     ColumnNode(1, "expressions", "t", "a"),
                     Node("Sum", 1, "expressions"),
                     Node("From", 1, "from"),
                     Node("Group", 1, "group"),
                     Node("Having", 1, "having"),
                     ColumnNode(3, "this", "t", "b"),
                     TableNode(4, "this", "", "", "t", ""),
                     ColumnNode(5, "expressions", "t", "a"),
                     Node("GT", 6, "this"),
                     Node("Sum", 10, "this"),
                     Node("Literal", 10, "expression"),
                     ColumnNode(11, "this", "t", "b") >> ],
       [ sql |-> "SELEC * FORM t",
         ok |-> FALSE, error |-> "Invalid expression / Unexpected token",
         tree |-> << >> ],
       [ sql |-> "SELECT id FROM db1.sch1.t2 WHERE id > 1 ORDER BY id",
         ok |-> TRUE, error |-> "",
         tree |-> << Node("Select", 0, ""),
                     ColumnNode(1, "expressions", "", "id"),
                     Node("From", 1, "from"),
                     Node("Where", 1, "where"),
                     Node("Order", 1, "order"),
                     TableNode(3, "this", "db1", "sch1", "t2", ""),
                     Node("GT", 4, "this"),
                     Node("Ordered", 5, "expressions"),
                     ColumnNode(7, "this", "", "id"),
                     Node("Literal", 7, "expression"),
                     ColumnNode(8, "this", "", "id") >> ],
       [ sql |-> "WITH c AS (SELECT id FROM t) SELECT * FROM c AS k",
         ok |-> TRUE, error |-> "",
         tree |-> << Node("Select", 0, ""),
                     Node("Star", 1, "expressions"),
                     Node("From", 1, "from"),
                     Node("With", 1, "with"),
                     TableNode(3, "this", "", "", "c", "k"),
                     AliasedNode("CTE", 4, "expressions", "c"),
                     Node("Select", 6, "this"),
                     ColumnNode(7, "expressions", "", "id"),
                     Node("From", 7, "from"),
                     TableNode(9, "this", "", "", "t", "") >> ],
       [ sql |-> "SELECT a.id FROM t a JOIN t b ON a.id = b.id",
         ok |-> TRUE, error |-> "",
         tree |-> << Node("Select", 0, ""),
                     ColumnNode(1, "expressions", "a", "id"),
                     Node("From", 1, "from"),
                     Node("Join", 1, "joins"),
                     TableNode(3, "this", "", "", "t", "a"),
                     TableNode(4, "this", "", "", "t", "b"),
                     Node("EQ", 4, "on"),
                     ColumnNode(7, "this", "a", "id"),
                     ColumnNode(7, "expression", "b", "id") >> ],
       [ sql |-> "SELECT o.id FROM orders o JOIN customers c ON o.cust_id = c.id WHERE o.created_at > 1 AND x.flag = 1",
         ok |-> TRUE, error |-> "",
         tree |-> << Node("Select", 0, ""),
                     ColumnNode(1, "expressions", "o", "id"),
                     Node("From", 1, "from"),
                     Node("Join", 1, "joins"),
                     Node("Where", 1, "where"),
                     TableNode(3, "this", "", "", "orders", "o"),
                     TableNode(4, "this", "", "", "customers", "c"),
                     Node("EQ", 4, "on"),
                     Node("And", 5, "this"),
                     ColumnNode(8, "this", "o", "cust_id"),
                     ColumnNode(8, "expression", "c", "id"),
                     Node("GT", 9, "this"),
                     Node("EQ", 9, "expression"),
                     ColumnNode(12, "this", "o", "created_at"),
                     Node("Literal", 12, "expression"),
                     ColumnNode(13, "this", "x", "flag"),
                     Node("Literal", 13, "expression") >> ] >>

\* sqlglot.parse_one(sql, read = source_platform)
parse_one(sql) ==
    Statements[CHOOSE i \in 1..Len(Statements) : Statements[i].sql = sql]

Indices(n) == [ k \in 1..n |-> k ]

\* node j is node i or lies under it
RECURSIVE IsUnder(_, _, _)
IsUnder(tree, j, i) ==
    \/ j = i
    \/ (j > i /\ tree[j].parent # 0 /\ IsUnder(tree, tree[j].parent, i))

\* expression.walk(), the nodes by index
walk(tree, i) == SelectSeq(Indices(Len(tree)), LAMBDA j : IsUnder(tree, j, i))

\* expression.find_all(*types)
find_all(tree, i, types) == SelectSeq(walk(tree, i), LAMBDA j : tree[j].type \in types)

\* expression.args.get(key): the node, or 0 for None
arg(tree, i, key) ==
    LET c == SelectSeq(Indices(Len(tree)),
                       LAMBDA j : tree[j].parent = i /\ tree[j].key = key)
    IN  IF c = << >> THEN 0 ELSE c[1]

\* expression.expressions
expressions(tree, i) ==
    SelectSeq(Indices(Len(tree)),
              LAMBDA j : tree[j].parent = i /\ tree[j].key = "expressions")

alias_or_name(tree, j) == IF tree[j].alias # "" THEN tree[j].alias ELSE tree[j].name

\* found[key] += n on a defaultdict(int)
Increment(found, key, n) == DictSet(found, key, DictGetOr(found, key, 0) + n)

_resolve_table_info(tree, j) == << tree[j].catalog, tree[j].db, tree[j].name >>

(***************************************************************************)
(* The three extractions on one tree.  A counter is a dict from a key      *)
(* tuple to a count, in the order the keys were first counted.             *)
(***************************************************************************)
\* the star projection that ends the loop over exp.expressions, or 0
StarChild(tree, exp) ==
    LET stars == SelectSeq(expressions(tree, exp),
                     LAMBDA c : \/ tree[c].type = "Star"
                                \/ /\ tree[c].type = "Column"
                                   /\ arg(tree, c, "this") # 0
                                   /\ tree[arg(tree, c, "this")].type = "Star")
    IN  IF stars = << >> THEN 0 ELSE stars[1]

\* qualifier: child.expression.name when child.expression is an Identifier
StarQualifier(tree, child) ==
    IF /\ tree[child].type = "Column"
       /\ arg(tree, child, "expression") # 0
       /\ tree[arg(tree, child, "expression")].type = "Identifier"
    THEN tree[arg(tree, child, "expression")].name
    ELSE PyNone

\* candidate_tables: alias_or_name -> Table node, from from_exp.this.walk()
RECURSIVE CandidateTables(_, _, _)
CandidateTables(tree, nodes, d) ==
    IF nodes = << >> THEN d
    ELSE LET j == nodes[1]
             next ==
                IF tree[j].type = "Table"
                THEN DictSet(d, alias_or_name(tree, j), j)
                ELSE IF /\ tree[j].type = "Alias"
                        /\ arg(tree, j, "this") # 0
                        /\ tree[arg(tree, j, "this")].type = "Table"
                     THEN DictSet(d, alias_or_name(tree, j), arg(tree, j, "this"))
                     ELSE d
         IN  CandidateTables(tree, Tail(nodes), next)

\* the loop over candidate_tables.items()
RECURSIVE CountStars(_, _, _, _, _)
CountStars(tree, candidates, qualifier, cte_definitions, found_stars) ==
    IF candidates = << >> THEN found_stars
    ELSE LET c == candidates[1]
             key == _resolve_table_info(tree, c.v)
             next ==
                IF qualifier # PyNone /\ qualifier # c.k THEN found_stars
                ELSE IF c.k \in cte_definitions THEN found_stars
                ELSE IF tree[c.v].type = "Subquery" THEN found_stars
                ELSE IF key[3] # "" THEN Increment(found_stars, key, 1)
                ELSE found_stars
         IN  CountStars(tree, Tail(candidates), qualifier, cte_definitions, next)

\* the body of the loop over expression.walk() for one node
StarsOfNode(tree, exp, cte_definitions, found_stars) ==
    IF tree[exp].type # "Select" \/ StarChild(tree, exp) = 0 THEN found_stars
    ELSE LET froms == find_all(tree, exp, {"From"})
         IN  IF froms = << >> \/ arg(tree, froms[1], "this") = 0 THEN found_stars
             ELSE CountStars(tree,
                      CandidateTables(tree, walk(tree, arg(tree, froms[1], "this")), << >>),
                      StarQualifier(tree, StarChild(tree, exp)),
                      cte_definitions, found_stars)

RECURSIVE StarsOfNodes(_, _, _, _)
StarsOfNodes(tree, nodes, cte_definitions, found_stars) ==
    IF nodes = << >> THEN found_stars
    ELSE StarsOfNodes(tree, Tail(nodes), cte_definitions,
                      StarsOfNode(tree, nodes[1], cte_definitions, found_stars))

\* the keys of cte_definitions are all the code reads of it
_find_select_star_in_expression(tree, expression) ==
    LET ctes == find_all(tree, expression, {"CTE"})
        cte_definitions == { alias_or_name(tree, ctes[i]) : i \in 1..Len(ctes) }
    IN  StarsOfNodes(tree, walk(tree, expression), cte_definitions, << >>)

\* extract_tables_from_clause
RECURSIVE extract_tables_from_clause(_, _, _, _)
extract_tables_from_clause(tree, nodes, cte_definitions, found_tables) ==
    IF nodes = << >> THEN found_tables
    ELSE LET j == nodes[1]
             key == _resolve_table_info(tree, j)
             next ==
                IF tree[j].type # "Table" THEN found_tables
                ELSE IF alias_or_name(tree, j) \in cte_definitions THEN found_tables
                ELSE IF key[3] # "" THEN Increment(found_tables, key, 1)
                ELSE found_tables
         IN  extract_tables_from_clause(tree, Tail(nodes), cte_definitions, next)

\* the clause the second loop of _find_read_tables_in_expression hands to
\* extract_tables_from_clause for one node, or 0
ClauseOfNode(tree, exp) ==
    IF tree[exp].type \in {"Select", "Subquery"}
    THEN IF arg(tree, exp, "from") # 0 THEN arg(tree, arg(tree, exp, "from"), "this") ELSE 0
    ELSE IF tree[exp].type = "Join" THEN arg(tree, exp, "this")
    ELSE IF tree[exp].type = "Merge" THEN arg(tree, exp, "using")
    ELSE IF arg(tree, exp, "this") # 0 /\ tree[arg(tree, exp, "this")].type = "Subquery"
         THEN arg(tree, exp, "this")
         ELSE 0

RECURSIVE ReadTablesOfNodes(_, _, _, _)
ReadTablesOfNodes(tree, nodes, cte_definitions, found_tables) ==
    IF nodes = << >> THEN found_tables
    ELSE LET clause == ClauseOfNode(tree, nodes[1])
         IN  ReadTablesOfNodes(tree, Tail(nodes), cte_definitions,
                 IF clause = 0 THEN found_tables
                 ELSE extract_tables_from_clause(tree, walk(tree, clause),
                                                 cte_definitions, found_tables))

\* found[key] += count for the items of a counter
RECURSIVE AddCounts(_, _)
AddCounts(found, items) ==
    IF items = << >> THEN found
    ELSE AddCounts(Increment(found, items[1].k, items[1].v), Tail(items))

\* _find_read_tables_in_expression: the counter it returns, with the
\* cte_definitions dict it leaves to its caller (the dict is shared with the
\* calls made for the CTE bodies)
RECURSIVE ReadTables(_, _, _)
RECURSIVE ReadTablesOfCtes(_, _, _, _)
ReadTablesOfCtes(tree, ctes, cte_definitions, found_tables) ==
    IF ctes = << >>
    THEN [ found |-> found_tables, defs |-> cte_definitions ]
    ELSE LET inner == ReadTables(tree, arg(tree, ctes[1], "this"),
                                 cte_definitions \cup { alias_or_name(tree, ctes[1]) })
         IN  ReadTablesOfCtes(tree, Tail(ctes), inner.defs,
                              AddCounts(found_tables, inner.found))

ReadTables(tree, expression, cte_definitions) ==
    LET step1 == ReadTablesOfCtes(tree, find_all(tree, expression, {"CTE"}),
                                  cte_definitions, << >>)
    IN  [ found |-> ReadTablesOfNodes(tree, walk(tree, expression),
                                      step1.defs, step1.found),
          defs |-> step1.defs ]

_find_read_tables_in_expression(tree, expression) ==
    ReadTables(tree, expression, {}).found

\* alias_map of extract_partition_cluster_candidates
RECURSIVE AliasMap(_, _, _)
AliasMap(tree, tables, alias_map) ==
    IF tables = << >> THEN alias_map
    ELSE LET info == _resolve_table_info(tree, tables[1])
         IN  AliasMap(tree, Tail(tables),
                 DictSet(DictSet(alias_map, alias_or_name(tree, tables[1]), info),
                         info[3], info))

\* the columns one clause kind hands to the counter, in the order of the
\* nested loops: for WHERE the columns under where.this, for JOIN those
\* under the on condition, for ORDER_BY and GROUP_BY those under the clause
RECURSIVE ColumnsOfClauses(_, _, _)
ColumnsOfClauses(tree, clauses, filter_type) ==
    IF clauses = << >> THEN << >>
    ELSE LET top == IF filter_type = "WHERE" THEN arg(tree, clauses[1], "this")
                    ELSE IF filter_type = "JOIN" THEN arg(tree, clauses[1], "on")
                    ELSE clauses[1]
         IN  (IF top = 0 THEN << >> ELSE find_all(tree, top, {"Column"}))
             \o ColumnsOfClauses(tree, Tail(clauses), filter_type)

\* CountColumns with an all-null default for a qualifier the alias map
\* does not hold
RECURSIVE CountColumnsNullTable(_, _, _, _, _)
CountColumnsNullTable(tree, columns, filter_type, alias_map, filter_counts) ==
    IF columns = << >> THEN filter_counts
    ELSE LET col == tree[columns[1]]
             table_info == DictGetOr(alias_map, col.table, << PyNone, PyNone, PyNone >>)
         IN  CountColumnsNullTable(tree, Tail(columns), filter_type, alias_map,
                 Increment(filter_counts,
                           table_info \o << filter_type, col.name >>, 1))

RECURSIVE CountColumns(_, _, _, _, _)
CountColumns(tree, columns, filter_type, alias_map, filter_counts) ==
    IF columns = << >> THEN filter_counts
    ELSE LET col == tree[columns[1]]
             table_info == DictGetOr(alias_map, col.table, << PyNone, PyNone, col.table >>)
         IN  CountColumns(tree, Tail(columns), filter_type, alias_map,
                 Increment(filter_counts,
                           table_info \o << filter_type, col.name >>, 1))

\* the clause classes extract_partition_cluster_candidates walks, with the
\* filter_type it gives their columns
FilterClauses ==
    << [class |-> "Where", filter_type |-> "WHERE"],
       [class |-> "Join",  filter_type |-> "JOIN"],
       [class |-> "Order", filter_type |-> "ORDER_BY"],
       [class |-> "Group", filter_type |-> "GROUP_BY"] >>

RECURSIVE FilterCounts(_, _, _, _)
FilterCounts(tree, kinds, alias_map, filter_counts) ==
    IF kinds = << >> THEN filter_counts
    ELSE FilterCounts(tree, Tail(kinds), alias_map,
             CountColumns(tree,
                 ColumnsOfClauses(tree, find_all(tree, 1, {kinds[1].class}),
                                  kinds[1].filter_type),
                 kinds[1].filter_type, alias_map, filter_counts))

\* the counter extract_partition_cluster_candidates builds for one tree
filter_counts_of(tree) ==
    FilterCounts(tree, FilterClauses,
                 AliasMap(tree, find_all(tree, 1, {"Table"}), << >>), << >>)

(***************************************************************************)
(* The three methods over a batch.  A fact is the dict the method appends  *)
(* to results, a record whose fields are the keys of the dict.             *)
(***************************************************************************)
MaxBatch == 2

QueryIds == << "q1", "q2", "q3", "q4" >>
StartTimes == << "2024-01-01T10:00:00", "2024-01-08T10:00:00",
                 "2024-01-09T10:00:00", "2024-02-01T10:00:00" >>

\* what storage.load_queries returns: the records of the log, in its order
QueryRecord(i, sql) ==
    [ query_id |-> QueryIds[i], query_text |-> sql, start_time |-> StartTimes[i],
      source_platform |-> "bigquery", source_project |-> "acme" ]

Batches ==
    UNION { { [ i \in 1..n |-> QueryRecord(i, Statements[f[i]].sql) ] :
              f \in [1..n -> 1..Len(Statements)] } : n \in 1..MaxBatch }

base_meta(q) ==
    [ query |-> q.query_text, query_id |-> q.query_id, start_time |-> q.start_time,
      source_platform |-> q.source_platform, source_project |-> q.source_project ]

\* the dict of the except branch
ErrorFact(q, e) == base_meta(q) @@ [ error |-> e ]

\* the dicts of one (db, schema, table) counter; the first name of the key
\* goes to "database", the second to "schema"
TableFacts(q, counter) ==
    [ i \in 1..Len(counter) |->
        base_meta(q) @@ [ database |-> counter[i].k[1], schema |-> counter[i].k[2],
                          table |-> counter[i].k[3], count |-> counter[i].v ] ]

\* one iteration of find_star_queries that passes over a statement that
\* does not parse
star_facts_skips_failures(q) ==
    LET parsed == parse_one(q.query_text)
    IN  IF ~parsed.ok THEN << >>
        ELSE TableFacts(q, _find_select_star_in_expression(parsed.tree, 1))

\* one iteration of the loop of find_star_queries: what it appends
star_facts(q) ==
    LET parsed == parse_one(q.query_text)
    IN  IF ~parsed.ok THEN << ErrorFact(q, parsed.error) >>
        ELSE TableFacts(q, _find_select_star_in_expression(parsed.tree, 1))

\* one iteration of the loop of find_read_table_queries
read_table_facts(q) ==
    LET parsed == parse_one(q.query_text)
    IN  IF ~parsed.ok THEN << ErrorFact(q, parsed.error) >>
        ELSE TableFacts(q, _find_read_tables_in_expression(parsed.tree, 1))

\* one iteration of the loop of extract_partition_cluster_candidates
candidate_facts(q) ==
    LET parsed == parse_one(q.query_text)
    IN  IF ~parsed.ok THEN << ErrorFact(q, parsed.error) >>
        ELSE LET counter == filter_counts_of(parsed.tree)
             IN  [ i \in 1..Len(counter) |->
                     base_meta(q) @@
                     [ database |-> counter[i].k[1], schema |-> counter[i].k[2],
                       table |-> counter[i].k[3], filter_type |-> counter[i].k[4],
                       column |-> counter[i].k[5], count |-> counter[i].v ] ]

AnalyzerInit ==
    /\ RequestInit /\ req = PlainRequest
    /\ stats0 = StatsBundle(MaxBuckets, MaxBuckets, FullMetadata)
    /\ TokenIdle /\ AggregationIdle /\ ServiceIdle
    /\ batch \in Batches
    /\ progress = [ read |-> 0, star |-> 0, candidates |-> 0 ]
    /\ results = [ read |-> << >>, star |-> << >>, candidates |-> << >> ]

request_vars ==
    << req, stats0, stats, pc, prompt, prompt_monthly, forward_map, reverse_map,
       attempt, sleeps, tier_log, last_attempt, error, result, response,
       storage_reads >>

FindReadTableQueries ==
    /\ progress.read < Len(batch)
    /\ \E new \in { read_table_facts(batch[progress.read + 1]) } :
          results' = [ results EXCEPT !.read = @ \o new ]
    /\ progress' = [ progress EXCEPT !.read = @ + 1 ]
    /\ UNCHANGED << request_vars, issued, batch, aggregation_vars, service_vars >>

FindStarQueries ==
    /\ progress.star < Len(batch)
    /\ \E new \in { star_facts(batch[progress.star + 1]) } :
          results' = [ results EXCEPT !.star = @ \o new ]
    /\ progress' = [ progress EXCEPT !.star = @ + 1 ]
    /\ UNCHANGED << request_vars, issued, batch, aggregation_vars, service_vars >>

ExtractPartitionClusterCandidates ==
    /\ progress.candidates < Len(batch)
    /\ \E new \in { candidate_facts(batch[progress.candidates + 1]) } :
          results' = [ results EXCEPT !.candidates = @ \o new ]
    /\ progress' = [ progress EXCEPT !.candidates = @ + 1 ]
    /\ UNCHANGED << request_vars, issued, batch, aggregation_vars, service_vars >>

AnalyzerNext ==
    \/ FindReadTableQueries
    \/ FindStarQueries
    \/ ExtractPartitionClusterCandidates

AnalyzerSpec == AnalyzerInit /\ [][AnalyzerNext]_vars

(***************************************************************************)
(* Properties of the Analyzer                                              *)
(***************************************************************************)
Methods == {"read", "star", "candidates"}

IsErrorFact(f) == "error" \in DOMAIN f

\* the facts a result list holds for one query
FactsFor(list, query_id) == SelectSeq(list, LAMBDA f : f.query_id = query_id)

\* what a method appends for a query analysed on its own
OwnFacts(m, q) ==
    IF m = "read" THEN read_table_facts(q)
    ELSE IF m = "star" THEN star_facts(q)
    ELSE candidate_facts(q)

C12_States ==
    \A m \in Methods : \A i \in 1..progress[m] :
        LET mine == FactsFor(results[m], batch[i].query_id)
        IN  /\ ~parse_one(batch[i].query_text).ok
               => /\ Len(mine) = 1
                  /\ DOMAIN mine[1] = { "query", "query_id", "start_time",
                                        "source_platform", "source_project", "error" }
                  /\ mine[1].start_time = batch[i].start_time
                  /\ mine[1].source_platform = batch[i].source_platform
                  /\ mine[1].source_project = batch[i].source_project
                  /\ mine[1].error # ""
            /\ parse_one(batch[i].query_text).ok
               => /\ \A k \in 1..Len(mine) : ~IsErrorFact(mine[k])
                  /\ mine = OwnFacts(m, batch[i])
            /\ ~ \E k, l \in 1..Len(mine) : IsErrorFact(mine[k]) /\ ~IsErrorFact(mine[l])

C12_Steps ==
    \A m \in Methods :
        /\ progress'[m] \in {progress[m], progress[m] + 1}
        /\ progress'[m] <= Len(batch)
        /\ Len(results'[m]) >= Len(results[m])
        /\ SubSeq(results'[m], 1, Len(results[m])) = results[m]

\* C12: analysis degrades per statement and never aborts the batch: in each
\* of find_read_table_queries, find_star_queries and
\* extract_partition_cluster_candidates a statement that fails to parse
\* leaves exactly one error fact (query, query_id, start_time, platform,
\* project, error) and no positive fact, the statements after it are
\* analysed one by one as they would be alone, and no query has both an
\* error fact and a positive fact in one result list.
C12_PerStatementDegradation == []C12_States /\ [][C12_Steps]_vars

\* a batch whose first statement does not parse was analysed to its end by
\* all three methods, the second statement giving facts in each list
C12_Witness ==
    /\ Len(batch) = 2
    /\ \A m \in Methods : progress[m] = 2
    /\ ~parse_one(batch[1].query_text).ok
    /\ \A m \in Methods :
          /\ IsErrorFact(results[m][1])
          /\ Len(results[m]) > 1
          /\ ~IsErrorFact(results[m][2])
          /\ results[m][2].query_id = "q2"

\* the names given to CTEs in a statement
CteNames(tree) == { tree[j].alias : j \in { k \in 1..Len(tree) : tree[k].type = "CTE" } }

\* the tables a Select names itself, in its FROM and in its JOINs
DirectTables(tree, sel) ==
    { j \in 1..Len(tree) :
        /\ tree[j].type = "Table" /\ tree[j].key = "this" /\ tree[j].parent # 0
        /\ LET p == tree[j].parent
           IN  /\ tree[p].parent = sel
               /\ \/ tree[p].type = "From" /\ tree[p].key = "from"
                  \/ tree[p].type = "Join" /\ tree[p].key = "joins" }

StarSelects(tree) ==
    { sel \in 1..Len(tree) : tree[sel].type = "Select" /\ StarChild(tree, sel) # 0 }

\* the alias of an alias.* projection, PyNone for a bare star
StarAlias(tree, sel) ==
    IF tree[StarChild(tree, sel)].type = "Column"
    THEN tree[StarChild(tree, sel)].table ELSE PyNone

\* the physical tables the star of a Select stands for
StarTargets(tree, sel) ==
    { j \in DirectTables(tree, sel) :
        /\ StarAlias(tree, sel) \in {PyNone, alias_or_name(tree, j)}
        /\ ~(tree[j].name \in CteNames(tree) /\ tree[j].db = "") }

TableKeys(tree) ==
    { _resolve_table_info(tree, j) : j \in { k \in 1..Len(tree) : tree[k].type = "Table" } }

\* the count a list of facts gives a table (0 with no fact for it)
RECURSIVE CountFor(_, _)
CountFor(list, key) ==
    IF list = << >> THEN 0
    ELSE (IF /\ ~IsErrorFact(list[1])
             /\ << list[1].database, list[1].schema, list[1].table >> = key
          THEN list[1].count ELSE 0)
         + CountFor(Tail(list), key)

\* C13: a wide-scan fact is recorded for a physical table t exactly when a
\* Select has a star whose target, resolved among the FROM/JOIN tables of
\* that Select only, is t: the count of t is the number of (Select, table
\* reference) pairs with a star on t.  For a bare star over several tables
\* the claim is read as an upper bound only.  SELECT alias.* FROM t AS alias
\* gives t count 1; SELECT c.* FROM a JOIN t AS c gives t and not a; SELECT *
\* FROM (SELECT * FROM t) sub gives t count 1.
C13_WideScanOnStarTarget ==
    \A i \in 1..progress.star :
        parse_one(batch[i].query_text).ok
        => LET tree == parse_one(batch[i].query_text).tree
               mine == FactsFor(results.star, batch[i].query_id)
               hits(key) == { << sel, j >> \in StarSelects(tree) \X (1..Len(tree)) :
                                 /\ j \in StarTargets(tree, sel)
                                 /\ _resolve_table_info(tree, j) = key }
               sure(key) == { h \in hits(key) :
                                 \/ StarAlias(tree, h[1]) # PyNone
                                 \/ Cardinality(DirectTables(tree, h[1])) = 1 }
           IN  \A key \in TableKeys(tree) :
                  /\ CountFor(mine, key) <= Cardinality(hits(key))
                  /\ CountFor(mine, key) >= Cardinality(sure(key))

\* the part of C13 the code keeps: SELECT alias.* FROM t AS alias records t
\* once
C13_AliasStarOnce ==
    \A i \in 1..progress.star :
        batch[i].query_text = "SELECT a.* FROM t AS a"
        => /\ Len(FactsFor(results.star, batch[i].query_id)) = 1
           /\ CountFor(FactsFor(results.star, batch[i].query_id), << "", "", "t" >>) = 1

\* every table reference of the statement is a reference to one of its CTEs
OnlyCteReferences(tree) ==
    \A j \in 1..Len(tree) :
        tree[j].type = "Table" => (tree[j].name \in CteNames(tree) /\ tree[j].db = "")

\* C14: a CTE alias is never reported as a base table: no read-table,
\* wide-scan or partition-candidate fact of a statement has for table the
\* alias of a CTE the statement defines, and a statement whose table
\* references are all references to its CTEs has no read-table fact.
C14_CteAliasNeverBaseTable ==
    \A m \in Methods : \A i \in 1..progress[m] :
        parse_one(batch[i].query_text).ok
        => LET tree == parse_one(batch[i].query_text).tree
               mine == FactsFor(results[m], batch[i].query_id)
           IN  /\ \A k \in 1..Len(mine) : mine[k].table \notin CteNames(tree)
               /\ (m = "read" /\ OnlyCteReferences(tree)) => mine = << >>

\* the part of C14 the code keeps: a statement that reads its CTEs only, by
\* their own names, has no read-table fact
C14_CteOnlyReadsNothing ==
    \A i \in 1..progress.read :
        batch[i].query_text = "WITH c AS (SELECT 1 AS n) SELECT n FROM c"
        => FactsFor(results.read, batch[i].query_id) = << >>

\* the references of a statement to physical tables: its Table nodes (all
\* of them sit in a FROM or a JOIN) but for the references to its CTEs
PhysicalReferences(tree) ==
    { j \in 1..Len(tree) :
        /\ tree[j].type = "Table"
        /\ ~(tree[j].name \in CteNames(tree) /\ tree[j].db = "") }

\* C15: the read-table fact of a table has for count the number of physical
\* references to the table in the statement, each counted once wherever it
\* sits (top level, subquery in FROM, CTE body), and there is one fact row
\* per distinct (database, schema, table).
C15_ReadCountIsReferenceCount ==
    \A i \in 1..progress.read :
        parse_one(batch[i].query_text).ok
        => LET tree == parse_one(batch[i].query_text).tree
               mine == FactsFor(results.read, batch[i].query_id)
               key(f) == << f.database, f.schema, f.table >>
           IN  /\ \A k \in TableKeys(tree) :
                     CountFor(mine, k) =
                        Cardinality({ j \in PhysicalReferences(tree) :
                                        _resolve_table_info(tree, j) = k })
               /\ \A a, b \in 1..Len(mine) : key(mine[a]) = key(mine[b]) => a = b
               /\ \A a \in 1..Len(mine) : mine[a].count > 0

\* the part of C15 the code keeps: orders and customers of the join
\* statement have count 1 each, in two rows, and a table joined to itself
\* has count 2 in one row
C15_TopLevelReferencesCounted ==
    \A i \in 1..progress.read :
        LET mine == FactsFor(results.read, batch[i].query_id)
        IN  /\ batch[i].query_text = Statements[1].sql
               => /\ Len(mine) = 2
                  /\ CountFor(mine, << "", "", "orders" >>) = 1
                  /\ CountFor(mine, << "", "", "customers" >>) = 1
            /\ batch[i].query_text = Statements[11].sql
               => Len(mine) = 1 /\ mine[1].count = 2

\* the columns under the HAVING conditions of a statement
HavingColumns(tree) ==
    { j \in 1..Len(tree) :
        /\ tree[j].type = "Column"
        /\ \E h \in 1..Len(tree) : tree[h].type = "Having" /\ IsUnder(tree, j, h) }

\* the name of the table a qualified column belongs to
OwningTable(tree, col) ==
    LET owners == { j \in 1..Len(tree) :
                      tree[j].type = "Table" /\ alias_or_name(tree, j) = tree[col].table }
    IN  IF owners = {} THEN tree[col].table
        ELSE tree[CHOOSE j \in owners : TRUE].name

FilterTypes == { "WHERE", "JOIN", "ORDER_BY", "GROUP_BY" }

\* C16: every column of a HAVING condition gives a partition-candidate fact
\* with filter_type WHERE for its owning table, and every
\* partition-candidate fact has its filter_type among WHERE, JOIN, ORDER_BY
\* and GROUP_BY.
C16_HavingFoldedIntoWhere ==
    \A i \in 1..progress.candidates :
        parse_one(batch[i].query_text).ok
        => LET tree == parse_one(batch[i].query_text).tree
               mine == FactsFor(results.candidates, batch[i].query_id)
           IN  /\ \A k \in 1..Len(mine) : mine[k].filter_type \in FilterTypes
               /\ \A col \in HavingColumns(tree) :
                     \E k \in 1..Len(mine) :
                        /\ mine[k].filter_type = "WHERE"
                        /\ mine[k].column = tree[col].name
                        /\ mine[k].table = OwningTable(tree, col)

\* the part of C16 the code keeps: the four filter types, each from the
\* clause of its name
C16_FilterTypesClosed ==
    \A i \in 1..progress.candidates :
        LET mine == FactsFor(results.candidates, batch[i].query_id)
        IN  \A k \in 1..Len(mine) :
               ~IsErrorFact(mine[k]) => mine[k].filter_type \in FilterTypes

\* the Table nodes a qualifier names, by their alias or by their bare name
Owners(tree, qualifier) ==
    { j \in 1..Len(tree) :
        /\ tree[j].type = "Table"
        /\ (alias_or_name(tree, j) = qualifier \/ tree[j].name = qualifier) }

\* the columns that sit in a clause of a tree, each with the tag of the
\* clause
ClauseColumns(tree) ==
    UNION { { << FilterClauses[k].filter_type, col >> :
                col \in { ColumnsOfClauses(tree,
                              find_all(tree, 1, {FilterClauses[k].class}),
                              FilterClauses[k].filter_type)[n] :
                          n \in 1..Len(ColumnsOfClauses(tree,
                                          find_all(tree, 1, {FilterClauses[k].class}),
                                          FilterClauses[k].filter_type)) } } :
            k \in 1..Len(FilterClauses) }

\* a fact is the one of a clause column: the tag of the clause, the name of
\* the column, the triple of a table its qualifier names, or else null
\* database and schema with unresolved_table as the table
FactOfColumn(tree, tagged, fact, unresolved_table) ==
    /\ fact.filter_type = tagged[1]
    /\ fact.column = tree[tagged[2]].name
    /\ IF Owners(tree, tree[tagged[2]].table) # {}
       THEN \E j \in Owners(tree, tree[tagged[2]].table) :
               << fact.database, fact.schema, fact.table >> = _resolve_table_info(tree, j)
       ELSE /\ fact.database = PyNone
            /\ fact.schema = PyNone
            /\ fact.table = unresolved_table

\* the facts of every parsed statement are those of its clause columns
CandidatesAreClauseColumns(keeps_qualifier) ==
    \A i \in 1..progress.candidates :
        parse_one(batch[i].query_text).ok
        => \E tree \in { parse_one(batch[i].query_text).tree } :
           \E mine \in { FactsFor(results.candidates, batch[i].query_id) } :
           \E tagged_columns \in { ClauseColumns(tree) } :
              LET unresolved(col) == IF keeps_qualifier THEN tree[col].table ELSE PyNone
              IN  /\ \A tagged \in tagged_columns :
                        \E k \in 1..Len(mine) :
                           FactOfColumn(tree, tagged, mine[k], unresolved(tagged[2]))
                  /\ \A k \in 1..Len(mine) :
                        \E tagged \in tagged_columns :
                           FactOfColumn(tree, tagged, mine[k], unresolved(tagged[2]))

\* C28 as stated: a clause column whose qualifier names a table of the
\* statement gives a fact with the triple of that table and the tag of the
\* clause; a column whose qualifier is absent or names no table gives a fact
\* with null database, schema and table, and only its column name.
C28_UnresolvedGetsNullTable == CandidatesAreClauseColumns(FALSE)

\* C28, amended: a clause column whose qualifier names a table of the
\* statement gives a fact with the (database, schema, table) triple of that
\* table and the tag of the clause; a column whose qualifier is absent or
\* names no table gives a fact with null database and schema whose table is
\* the qualifier as written, the empty string when there is none.
C28_UnresolvedKeepsQualifier == CandidatesAreClauseColumns(TRUE)

\* fact k of the candidates is no error fact and has the value in the field
CandidateHas(k, field, value) ==
    ~IsErrorFact(results.candidates[k]) /\ results.candidates[k][field] = value

\* the statement of the specification's example analysed next to one with
\* unqualified columns: o.created_at and c.id are resolved, x.flag and id
\* are not
C28_Witness ==
    /\ progress.candidates = 2 /\ Len(batch) = 2
    /\ \E k \in 1..Len(results.candidates) :
          /\ CandidateHas(k, "table", "orders")
          /\ CandidateHas(k, "filter_type", "WHERE")
          /\ CandidateHas(k, "column", "created_at")
    /\ \E k \in 1..Len(results.candidates) :
          /\ CandidateHas(k, "table", "customers")
          /\ CandidateHas(k, "filter_type", "JOIN")
          /\ CandidateHas(k, "column", "id")
    /\ \E k \in 1..Len(results.candidates) :
          /\ CandidateHas(k, "database", PyNone)
          /\ CandidateHas(k, "table", "x")
          /\ CandidateHas(k, "column", "flag")
    /\ \E k \in 1..Len(results.candidates) :
          /\ CandidateHas(k, "database", PyNone)
          /\ CandidateHas(k, "table", "")
          /\ CandidateHas(k, "filter_type", "ORDER_BY")

(***************************************************************************)
(* Part 3: time buckets and aggregation (api/utils/dates.py,               *)
(* api/services/data_service.py)                                           *)
(*                                                                         *)
(* A datetime is its calendar date with the text of its time part; the     *)
(* buckets read nothing of the time.                                       *)
(***************************************************************************)
\* int(text) for a text of decimal digits
RECURSIVE DigitsToInt(_)
DigitsToInt(text) ==
    IF text = "" THEN 0
    ELSE 10 * DigitsToInt(SubSeq(text, 1, Len(text) - 1))
         + (ord(CharAt(text, Len(text))) - 48)

\* dt_value.replace('Z', '+00:00')
RECURSIVE ReplaceZ(_)
ReplaceZ(text) ==
    IF text = "" THEN ""
    ELSE (IF CharAt(text, 1) = "Z" THEN "+00:00" ELSE CharAt(text, 1))
         \o ReplaceZ(SubSeq(text, 2, Len(text)))

\* datetime.fromisoformat on YYYY-MM-DD[Thh:mm:ss[+hh:mm]]
fromisoformat(text) ==
    [ year |-> DigitsToInt(SubSeq(text, 1, 4)),
      month |-> DigitsToInt(SubSeq(text, 6, 7)),
      day |-> DigitsToInt(SubSeq(text, 9, 10)),
      time |-> SubSeq(text, 11, Len(text)) ]

parse_datetime(dt_value) == fromisoformat(ReplaceZ(dt_value))

IsLeap(year) == year % 4 = 0 /\ (year % 100 # 0 \/ year % 400 = 0)

DaysInMonth(year, month) ==
    IF month = 2 THEN (IF IsLeap(year) THEN 29 ELSE 28)
    ELSE IF month \in {4, 6, 9, 11} THEN 30 ELSE 31

RECURSIVE DaysBeforeMonth(_, _)
DaysBeforeMonth(year, month) ==
    IF month = 1 THEN 0
    ELSE DaysBeforeMonth(year, month - 1) + DaysInMonth(year, month - 1)

\* date.toordinal(): day 1 is 0001-01-01
toordinal(dt) ==
    (dt.year - 1) * 365 + (dt.year - 1) \div 4 - (dt.year - 1) \div 100
        + (dt.year - 1) \div 400
        + DaysBeforeMonth(dt.year, dt.month) + dt.day

\* datetime.weekday(): Monday is 0
weekday(dt) == (toordinal(dt) + 6) % 7

\* dt - timedelta(days = n), for n of at most a week
MinusDays(dt, n) ==
    IF dt.day > n THEN [ dt EXCEPT !.day = @ - n ]
    ELSE LET m == IF dt.month = 1 THEN 12 ELSE dt.month - 1
             y == IF dt.month = 1 THEN dt.year - 1 ELSE dt.year
         IN  [ dt EXCEPT !.year = y, !.month = m,
                         !.day = DaysInMonth(y, m) + dt.day - n ]

\* %m, %d of strftime
Pad2(n) == Digit(n \div 10) \o Digit(n % 10)

\* %Y of strftime: the decimal digits of the year; the C library of this
\* build does not pad them, a year below 1000 prints in fewer than four
RECURSIVE FormatYear(_)
FormatYear(n) == IF n < 10 THEN Digit(n) ELSE FormatYear(n \div 10) \o Digit(n % 10)

\* get_week_start that formats the day of the timestamp itself
get_week_start_of_same_day(dt) ==
    FormatYear(dt.year) \o "-" \o Pad2(dt.month) \o "-" \o Pad2(dt.day)

get_week_start(dt) ==
    LET week_start == MinusDays(dt, weekday(dt))
    IN  FormatYear(week_start.year) \o "-" \o Pad2(week_start.month)
            \o "-" \o Pad2(week_start.day)

get_month_start(dt) == FormatYear(dt.year) \o "-" \o Pad2(dt.month)

\* d.get(key, default) on a fact
Get(d, key, default) == IF key \in DOMAIN d THEN d[key] ELSE default

\* the truth value Python gives a field that is a text or None
Truthy(v) == v # PyNone /\ v # ""

\* the bucket key the period gives a timestamp
BucketKey(period, start_time) ==
    IF period = "weekly" THEN get_week_start(parse_datetime(start_time))
    ELSE get_month_start(parse_datetime(start_time))

\* AddQueries that counts every fact as one query
RECURSIVE AddQueriesAsOne(_, _, _, _)
AddQueriesAsOne(by_bucket, query_list, stat_key, period) ==
    IF query_list = << >> THEN by_bucket
    ELSE LET q == query_list[1]
             start_time == Get(q, "start_time", PyNone)
             bucket == BucketKey(period, start_time)
             old == DictGetOr(by_bucket, bucket, [total_queries |-> 0, star_queries |-> 0])
         IN  AddQueriesAsOne(
                 IF Truthy(start_time)
                 THEN DictSet(by_bucket, bucket, [ old EXCEPT ![stat_key] = @ + 1 ])
                 ELSE by_bucket,
                 Tail(query_list), stat_key, period)

\* the inner loop of calculate_weekly_stats / calculate_monthly_stats over
\* one query list: stats[bucket][stat_key] += q.get('count', 1)
RECURSIVE AddQueries(_, _, _, _)
AddQueries(by_bucket, query_list, stat_key, period) ==
    IF query_list = << >> THEN by_bucket
    ELSE LET q == query_list[1]
             start_time == Get(q, "start_time", PyNone)
             bucket == BucketKey(period, start_time)
             old == DictGetOr(by_bucket, bucket, [total_queries |-> 0, star_queries |-> 0])
         IN  AddQueries(
                 IF Truthy(start_time)
                 THEN DictSet(by_bucket, bucket,
                              [ old EXCEPT ![stat_key] = @ + Get(q, "count", 1) ])
                 ELSE by_bucket,
                 Tail(query_list), stat_key, period)

\* the stats dict of calculate_weekly_stats / calculate_monthly_stats
TimeStats(read_queries, star_queries, period) ==
    AddQueries(AddQueries(<< >>, read_queries, "total_queries", period),
               star_queries, "star_queries", period)

\* the keys of stats.items() left in the order the facts opened the buckets
SortedKeysUnsorted(by_bucket) == [ i \in 1..Len(by_bucket) |-> by_bucket[i].k ]

\* the keys of sorted(stats.items())
SortedKeys(by_bucket) == sorted(DictKeys(by_bucket))

calculate_weekly_stats(read_queries, star_queries) ==
    LET by_bucket == TimeStats(read_queries, star_queries, "weekly")
        weeks == SortedKeys(by_bucket)
    IN  [ i \in 1..Len(weeks) |->
            [ week_start |-> weeks[i],
              total_queries |-> DictGet(by_bucket, weeks[i]).total_queries,
              star_queries |-> DictGet(by_bucket, weeks[i]).star_queries ] ]

calculate_monthly_stats(read_queries, star_queries) ==
    LET by_bucket == TimeStats(read_queries, star_queries, "monthly")
        months == SortedKeys(by_bucket)
    IN  [ i \in 1..Len(months) |->
            [ month_start |-> months[i],
              total_queries |-> DictGet(by_bucket, months[i]).total_queries,
              star_queries |-> DictGet(by_bucket, months[i]).star_queries ] ]

\* AddCandidates whose counter keeps the count of the last candidate
RECURSIVE AddCandidatesLastWins(_, _, _)
AddCandidatesLastWins(by_bucket, candidates, period) ==
    IF candidates = << >> THEN by_bucket
    ELSE LET candidate == candidates[1]
             start_time == Get(candidate, "start_time", PyNone)
             column == Get(candidate, "column", PyNone)
             filter_type == Get(candidate, "filter_type", PyNone)
         IN  AddCandidatesLastWins(
                 IF Truthy(start_time) /\ Truthy(column) /\ Truthy(filter_type)
                 THEN DictSet(by_bucket,
                          << BucketKey(period, start_time), column, filter_type >>,
                          Get(candidate, "count", 0))
                 ELSE by_bucket,
                 Tail(candidates), period)

\* the loop of calculate_weekly_partition_stats /
\* calculate_monthly_partition_stats: stats[bucket][column][filter_type] +=
\* count, the nested dicts written as one counter on the three keys
RECURSIVE AddCandidates(_, _, _)
AddCandidates(by_bucket, candidates, period) ==
    IF candidates = << >> THEN by_bucket
    ELSE LET candidate == candidates[1]
             start_time == Get(candidate, "start_time", PyNone)
             column == Get(candidate, "column", PyNone)
             filter_type == Get(candidate, "filter_type", PyNone)
             count == Get(candidate, "count", 0)
         IN  AddCandidates(
                 IF Truthy(start_time) /\ Truthy(column) /\ Truthy(filter_type)
                 THEN Increment(by_bucket,
                          << BucketKey(period, start_time), column, filter_type >>, count)
                 ELSE by_bucket,
                 Tail(candidates), period)

\* the result list of the two partition functions but for the name of the
\* bucket key: sorted buckets, in each the sorted columns, in each the
\* sorted filter types
PartitionBuckets(candidates, period) ==
    LET by_bucket == AddCandidates(<< >>, candidates, period)
        buckets == sorted({ k[1] : k \in DictKeys(by_bucket) })
        columns(b) == sorted({ k[2] : k \in { x \in DictKeys(by_bucket) : x[1] = b } })
        types(b, c) ==
            sorted({ k[3] : k \in { x \in DictKeys(by_bucket) : x[1] = b /\ x[2] = c } })
    IN  [ i \in 1..Len(buckets) |->
            [ bucket |-> buckets[i],
              columns |->
                [ j \in 1..Len(columns(buckets[i])) |->
                    [ column |-> columns(buckets[i])[j],
                      filter_types |->
                        [ l \in 1..Len(types(buckets[i], columns(buckets[i])[j])) |->
                            [ filter_type |->
                                types(buckets[i], columns(buckets[i])[j])[l],
                              total_count |->
                                DictGet(by_bucket,
                                    << buckets[i], columns(buckets[i])[j],
                                       types(buckets[i], columns(buckets[i])[j])[l] >>)
                            ] ] ] ] ] ]

\* calculate_weekly_partition_stats that emits the latest week first
calculate_weekly_partition_stats_descending(candidates) ==
    LET rows == PartitionBuckets(candidates, "weekly")
    IN  [ i \in 1..Len(rows) |->
            [ week_start |-> rows[Len(rows) + 1 - i].bucket,
              columns |-> rows[Len(rows) + 1 - i].columns ] ]

calculate_weekly_partition_stats(candidates) ==
    LET rows == PartitionBuckets(candidates, "weekly")
    IN  [ i \in 1..Len(rows) |->
            [ week_start |-> rows[i].bucket, columns |-> rows[i].columns ] ]

calculate_monthly_partition_stats(candidates) ==
    LET rows == PartitionBuckets(candidates, "monthly")
    IN  [ i \in 1..Len(rows) |->
            [ month_start |-> rows[i].bucket, columns |-> rows[i].columns ] ]

\* the three filters of load_and_filter_query_data
load_and_filter_query_data(storage, table) ==
    LET table_lower == IF Truthy(table) THEN lower(table) ELSE PyNone
        mine(list) ==
            SelectSeq(list, LAMBDA q :
                (IF Truthy(Get(q, "table", PyNone))
                 THEN lower(q.table) ELSE "") = table_lower)
    IN  [ read_queries |-> mine(storage.read_queries),
          star_queries |-> mine(storage.star_queries),
          partition_candidates |-> mine(storage.partition_candidates) ]

\* sum(s[field] for s in time_stats)
RECURSIVE SumField(_, _)
SumField(rows, field) ==
    IF rows = << >> THEN 0 ELSE rows[1][field] + SumField(Tail(rows), field)

\* get_table_stats whose summary counts the facts instead of summing the
\* buckets
get_table_stats_counting_facts(storage, table, table_metadata, period) ==
    LET query_data == load_and_filter_query_data(storage, table)
        time_stats == IF period = "monthly"
                      THEN calculate_monthly_stats(query_data.read_queries,
                                                   query_data.star_queries)
                      ELSE calculate_weekly_stats(query_data.read_queries,
                                                  query_data.star_queries)
        totals == [ total_queries |-> Len(query_data.read_queries),
                    total_star_queries |-> Len(query_data.star_queries) ]
    IN  IF period = "monthly"
        THEN [ monthly_stats |-> time_stats,
               partition_stats |->
                   calculate_monthly_partition_stats(query_data.partition_candidates),
               table_metadata |-> table_metadata,
               period |-> period,
               summary |-> [ total_months |-> Len(time_stats) ] @@ totals ]
        ELSE [ weekly_stats |-> time_stats,
               partition_stats |->
                   calculate_weekly_partition_stats(query_data.partition_candidates),
               table_metadata |-> table_metadata,
               period |-> period,
               summary |-> [ total_weeks |-> Len(time_stats) ] @@ totals ]

\* table_metadata is what find_table_metadata found for the table
get_table_stats(storage, table, table_metadata, period) ==
    LET query_data == load_and_filter_query_data(storage, table)
    IN  IF period = "monthly"
        THEN LET time_stats == calculate_monthly_stats(query_data.read_queries,
                                                       query_data.star_queries)
             IN  [ monthly_stats |-> time_stats,
                   partition_stats |->
                       calculate_monthly_partition_stats(query_data.partition_candidates),
                   table_metadata |-> table_metadata,
                   period |-> period,
                   summary |-> [ total_months |-> Len(time_stats),
                                 total_queries |-> SumField(time_stats, "total_queries"),
                                 total_star_queries |->
                                     SumField(time_stats, "star_queries") ] ]
        ELSE LET time_stats == calculate_weekly_stats(query_data.read_queries,
                                                      query_data.star_queries)
             IN  [ weekly_stats |-> time_stats,
                   partition_stats |->
                       calculate_weekly_partition_stats(query_data.partition_candidates),
                   table_metadata |-> table_metadata,
                   period |-> period,
                   summary |-> [ total_weeks |-> Len(time_stats),
                                 total_queries |-> SumField(time_stats, "total_queries"),
                                 total_star_queries |->
                                     SumField(time_stats, "star_queries") ] ]

(***************************************************************************)
(* The facts in storage.  The log is a sequence of entries, an entry being *)
(* the read-table, wide-scan and partition-candidate facts one logged      *)
(* query left; a fact holds the keys its dict has.                         *)
(***************************************************************************)
MaxFacts == 2

LogEntries ==
    << [ read |-> << [table |-> "orders", start_time |-> "2024-01-01T10:00:00"] >>,
         star |-> << [table |-> "orders", start_time |-> "2024-01-01T10:00:00"] >>,
         part |-> << [table |-> "orders", start_time |-> "2024-01-01T10:00:00",
                      column |-> "id", filter_type |-> "WHERE", count |-> 1] >> ],
       [ read |-> << [table |-> "orders", start_time |-> "2024-01-08T10:00:00"] >>,
         star |-> << >>,
         part |-> << [table |-> "orders", start_time |-> "2024-01-08T10:00:00",
                      column |-> "id", filter_type |-> "JOIN"] >> ],
       [ read |-> << [table |-> "orders", start_time |-> "2024-01-07T23:59:59",
                      count |-> 2],
                     [table |-> "orders", count |-> 4] >>,
         star |-> << [table |-> "orders", start_time |-> "2024-01-07T23:59:59",
                      count |-> 2] >>,
         part |-> << [table |-> "orders", start_time |-> "2024-01-07T23:59:59",
                      column |-> "id", filter_type |-> "WHERE", count |-> 2] >> ],
       [ read |-> << [table |-> "orders", start_time |-> "2023-12-31T08:00:00",
                      count |-> 3] >>,
         star |-> << >>,
         part |-> << [table |-> "orders", start_time |-> "2023-12-31T08:00:00",
                      column |-> "created_at", filter_type |-> "ORDER_BY",
                      count |-> 3] >> ],
       [ read |-> << [table |-> "orders", start_time |-> "2024-03-01T00:00:00Z",
                      count |-> 1] >>,
         star |-> << [table |-> "orders", start_time |-> "2024-03-01T00:00:00Z",
                      count |-> 1] >>,
         part |-> << [table |-> "orders", start_time |-> "2024-03-01T00:00:00Z",
                      filter_type |-> "WHERE", count |-> 5],
                     [table |-> "orders", start_time |-> "2024-03-01T00:00:00Z",
                      column |-> "id", filter_type |-> "", count |-> 6] >> ],
       [ read |-> << [table |-> "orders", count |-> 4] >>,
         star |-> << [table |-> "orders", start_time |-> "", count |-> 1] >>,
         part |-> << [table |-> "orders", column |-> "id", filter_type |-> "WHERE",
                      count |-> 3] >> ],
       [ read |-> << [table |-> "customers", start_time |-> "2024-01-01T10:00:00",
                      count |-> 9] >>,
         star |-> << [table |-> "customers", start_time |-> "2024-01-01T10:00:00",
                      count |-> 9] >>,
         part |-> << [table |-> "customers", start_time |-> "2024-01-01T10:00:00",
                      column |-> "id", filter_type |-> "WHERE", count |-> 9] >> ],
       [ read |-> << [table |-> "Orders", start_time |-> "2025-01-01T09:30:00",
                      count |-> 0] >>,
         star |-> << >>,
         part |-> << [table |-> "Orders", start_time |-> "2025-01-01T09:30:00",
                      column |-> "id", filter_type |-> "WHERE", count |-> 1],
                     [table |-> "Orders", start_time |-> "2025-01-01T09:30:00",
                      column |-> "created_at", filter_type |-> "WHERE", count |-> 2],
                     [table |-> "Orders", start_time |-> "2025-01-01T09:30:00",
                      column |-> "created_at", filter_type |-> "GROUP_BY",
                      count |-> 1] >> ] >>

RECURSIVE FactsOfLog(_, _)
FactsOfLog(entries, field) ==
    IF entries = << >> THEN << >>
    ELSE LogEntries[entries[1]][field] \o FactsOfLog(Tail(entries), field)

\* what storage returns for a log
StorageOf(entries) ==
    [ read_queries |-> FactsOfLog(entries, "read"),
      star_queries |-> FactsOfLog(entries, "star"),
      partition_candidates |-> FactsOfLog(entries, "part") ]

AggregationInit ==
    /\ RequestInit /\ req = PlainRequest
    /\ stats0 = StatsBundle(MaxBuckets, MaxBuckets, FullMetadata)
    /\ TokenIdle /\ AnalyzerIdle /\ ServiceIdle
    /\ \E n \in 0..MaxFacts : \E entries \in [1..n -> 1..Len(LogEntries)] :
          facts = StorageOf(entries)
    /\ agg = [ weekly |-> << >>, monthly |-> << >> ]
    /\ agg_prev = [ weekly |-> << >>, monthly |-> << >> ]

Reverse(list) == [ i \in 1..Len(list) |-> list[Len(list) + 1 - i] ]

\* one call of get_table_stats
GetTableStats ==
    /\ \E period \in {"weekly", "monthly"} :
          \E new \in { get_table_stats(facts, req.table, stats0.table_metadata, period) } :
             /\ agg' = [ agg EXCEPT ![period] = << new >> ]
             /\ agg_prev' = [ agg_prev EXCEPT ![period] = agg[period] ]
    /\ UNCHANGED << request_vars, issued, analyzer_vars, facts, service_vars >>

\* storage comes to return the facts of one kind in another order
StorageReorders ==
    /\ \E kind \in {"read_queries", "star_queries", "partition_candidates"} :
          /\ Len(facts[kind]) > 1
          /\ facts' = [ facts EXCEPT ![kind] = Reverse(@) ]
    /\ UNCHANGED << request_vars, issued, analyzer_vars, agg, agg_prev, service_vars >>

AggregationNext == GetTableStats \/ StorageReorders

AggregationSpec == AggregationInit /\ [][AggregationNext]_vars

(***************************************************************************)
(* Properties of the time buckets and of the aggregation                   *)
(***************************************************************************)
\* the facts of the table of the request, as the calculate functions get
\* them
Filtered == load_and_filter_query_data(facts, req.table)

HasTime(q) == Truthy(Get(q, "start_time", PyNone))

\* the read-table and wide-scan facts with a timestamp
TimedFacts ==
    SelectSeq(Filtered.read_queries \o Filtered.star_queries, HasTime)

\* their timestamps
TimedStamps == { TimedFacts[i].start_time : i \in 1..Len(TimedFacts) }

\* the time-bucket rows of the last aggregation of a period and their keys
RowsOf(period) ==
    IF period = "weekly" THEN agg.weekly[1].weekly_stats
    ELSE agg.monthly[1].monthly_stats

KeyOfRow(period, row) == IF period = "weekly" THEN row.week_start ELSE row.month_start

Periods == {"weekly", "monthly"}

\* C17: the weekly bucket key of a timestamp is the date, as YYYY-MM-DD, of
\* the Monday on or before it (a Monday gives its own date, a Sunday the
\* date six days before), the monthly key is its YYYY-MM, and the fact is
\* counted under these keys; two timestamps seven days apart have different
\* weekly keys; the facts of 2024-01-01T10:00:00 and 2024-01-08T10:00:00
\* without count give the buckets 2024-01-01 and 2024-01-08 with
\* total_queries 1 each.
C17_BucketIsMondayOnOrBefore ==
    /\ \A ts \in TimedStamps :
          LET moment == parse_datetime(ts)
              week == get_week_start(moment)
              monday == fromisoformat(week)
          IN  /\ Len(week) = 10 /\ CharAt(week, 5) = "-" /\ CharAt(week, 8) = "-"
              /\ weekday(monday) = 0
              /\ toordinal(moment) - toordinal(monday) \in 0..6
              /\ weekday(moment) = 0 => week = SubSeq(ts, 1, 10)
              /\ weekday(moment) = 6 => toordinal(moment) - toordinal(monday) = 6
              /\ get_month_start(moment) = SubSeq(ts, 1, 7)
              /\ agg.weekly # << >>
                 => \E r \in 1..Len(RowsOf("weekly")) :
                       RowsOf("weekly")[r].week_start = week
              /\ agg.monthly # << >>
                 => \E r \in 1..Len(RowsOf("monthly")) :
                       RowsOf("monthly")[r].month_start = SubSeq(ts, 1, 7)
    /\ \A a, b \in TimedStamps :
          toordinal(parse_datetime(b)) - toordinal(parse_datetime(a)) = 7
          => get_week_start(parse_datetime(a)) # get_week_start(parse_datetime(b))
    /\ ( /\ agg.weekly # << >>
         /\ Len(Filtered.read_queries) = 2
         /\ { Filtered.read_queries[k] : k \in 1..2 }
               = { [table |-> "orders", start_time |-> "2024-01-01T10:00:00"],
                   [table |-> "orders", start_time |-> "2024-01-08T10:00:00"] } )
       => /\ Len(RowsOf("weekly")) = 2
          /\ RowsOf("weekly")[1].week_start = "2024-01-01"
          /\ RowsOf("weekly")[1].total_queries = 1
          /\ RowsOf("weekly")[2].week_start = "2024-01-08"
          /\ RowsOf("weekly")[2].total_queries = 1

\* a Sunday of the last days of a year was put in the week of the Monday
\* before it, in the year's last month
C17_Witness ==
    /\ agg.weekly # << >> /\ agg.monthly # << >>
    /\ \E i \in 1..Len(TimedFacts) : TimedFacts[i].start_time = "2023-12-31T08:00:00"
    /\ \E r \in 1..Len(RowsOf("weekly")) : RowsOf("weekly")[r].week_start = "2023-12-25"
    /\ \E r \in 1..Len(RowsOf("monthly")) : RowsOf("monthly")[r].month_start = "2023-12"

\* the counts of the facts of a list that fall in a bucket
RECURSIVE CountsIn(_, _, _)
CountsIn(list, period, key) ==
    IF list = << >> THEN 0
    ELSE (IF HasTime(list[1]) /\ BucketKey(period, list[1].start_time) = key
          THEN Get(list[1], "count", 1) ELSE 0)
         + CountsIn(Tail(list), period, key)

\* the counts of the facts of a list that have a timestamp
RECURSIVE TimedCounts(_)
TimedCounts(list) ==
    IF list = << >> THEN 0
    ELSE (IF HasTime(list[1]) THEN Get(list[1], "count", 1) ELSE 0)
         + TimedCounts(Tail(list))

\* C18: in every bucket of calculate_weekly_stats / calculate_monthly_stats
\* total_queries is the sum of count over the read-table facts whose
\* timestamp falls in the bucket and star_queries the sum over the wide-scan
\* facts, a fact without count counting 1; a fact without timestamp counts
\* in no bucket.
C18_BucketSumsCounts ==
    \A period \in Periods :
        agg[period] # << >>
        => /\ \A r \in 1..Len(RowsOf(period)) :
                 LET row == RowsOf(period)[r]
                 IN  /\ row.total_queries
                          = CountsIn(Filtered.read_queries, period, KeyOfRow(period, row))
                     /\ row.star_queries
                          = CountsIn(Filtered.star_queries, period, KeyOfRow(period, row))
           /\ SumField(RowsOf(period), "total_queries")
                 = TimedCounts(Filtered.read_queries)
           /\ SumField(RowsOf(period), "star_queries")
                 = TimedCounts(Filtered.star_queries)

\* a week holds a fact without count and a fact of count 2, and a fact of
\* count 4 without timestamp is in no bucket: the week's total is 3
C18_Witness ==
    /\ agg.weekly # << >>
    /\ \E i \in 1..Len(Filtered.read_queries) :
          ~HasTime(Filtered.read_queries[i]) /\ Get(Filtered.read_queries[i], "count", 1) = 4
    /\ \E i \in 1..Len(Filtered.read_queries) :
          HasTime(Filtered.read_queries[i]) /\ "count" \notin DOMAIN Filtered.read_queries[i]
    /\ Len(RowsOf("weekly")) = 1
    /\ RowsOf("weekly")[1].total_queries = 3
    /\ RowsOf("weekly")[1].star_queries = 3

\* C19: the series of calculate_weekly_stats / calculate_monthly_stats has
\* exactly one entry per bucket key that holds a timestamped read-table or
\* wide-scan fact, none for another key, and its entries are in strictly
\* ascending order of the key.
C19_SeriesSparseUniqueAscending ==
    \A period \in Periods :
        agg[period] # << >>
        => LET rows == RowsOf(period)
               keys == { BucketKey(period, TimedFacts[i].start_time) :
                           i \in 1..Len(TimedFacts) }
           IN  /\ { KeyOfRow(period, rows[r]) : r \in 1..Len(rows) } = keys
               /\ Len(rows) = Cardinality(keys)
               /\ \A r \in 1..Len(rows) - 1 :
                     StrLess(KeyOfRow(period, rows[r]), KeyOfRow(period, rows[r + 1]))

\* facts given with the later week first came out with the earlier week
\* first, and the empty week between the two has no entry
C19_Witness ==
    /\ agg.weekly # << >>
    /\ Len(Filtered.read_queries) = 2
    /\ Get(Filtered.read_queries[1], "start_time", PyNone) = "2024-01-08T10:00:00"
    /\ Get(Filtered.read_queries[2], "start_time", PyNone) = "2023-12-31T08:00:00"
    /\ Len(RowsOf("weekly")) = 2
    /\ RowsOf("weekly")[1].week_start = "2023-12-25"
    /\ RowsOf("weekly")[2].week_start = "2024-01-08"

\* the facts of a list as a bag
BagOf(list) ==
    [ f \in { list[i] : i \in 1..Len(list) } |->
        Cardinality({ i \in 1..Len(list) : list[i] = f }) ]

C20_States ==
    \A period \in Periods :
        (agg[period] # << >> /\ agg_prev[period] # << >>)
        => agg[period] = agg_prev[period]

C20_Steps ==
    /\ (agg' # agg \/ agg_prev' # agg_prev) => facts' = facts
    /\ \A kind \in {"read_queries", "star_queries", "partition_candidates"} :
          BagOf(facts'[kind]) = BagOf(facts[kind])

\* C20: aggregation is a function of the fact set only: get_table_stats on
\* the same facts, called again or called after storage returned them in
\* another order, gives the identical weekly and monthly results (the bucket
\* lists of the queries and of the partition candidates, order and values),
\* and a call leaves the facts as they were.
C20_AggregationIsFunctionOfFacts == []C20_States /\ [][C20_Steps]_vars

\* both periods were aggregated twice over two candidates of one week,
\* column and filter type with different counts
C20_Witness ==
    /\ \A period \in Periods : agg[period] # << >> /\ agg_prev[period] # << >>
    /\ Len(Filtered.partition_candidates) = 2
    /\ Get(Filtered.partition_candidates[1], "count", 0) = 2
    /\ Get(Filtered.partition_candidates[2], "count", 0) = 1
    /\ agg.weekly[1].partition_stats[1].columns[1].filter_types[1].total_count = 3

(***************************************************************************)
(* Part 4 of the development: the fact tables of DuckDBStorage             *)
(* (patterns/store/duckdb_storage.py) as run_analysis                      *)
(* (api/services/refresh_service.py) fills them.                           *)
(*                                                                         *)
(* A table is the sequence of its rows in insertion order.  A row is a     *)
(* record over the columns of the table; a NULL text is PyNone, and the    *)
(* count column holds << n >> for the integer n and << >> for NULL.        *)
(***************************************************************************)
FactColumns(name) ==
    { "query_id", "start_time", "source_platform", "source_project", "database",
      "schema", "table", "count", "error" }
    \cup (IF name = "partition_candidates" THEN { "filter_type", "column" } ELSE { })

\* one tuple of data_to_insert: d.get(column) for every column
RowOf(name, d) ==
    [ c \in FactColumns(name) |->
        IF c = "count" THEN (IF c \in DOMAIN d THEN << d[c] >> ELSE << >>)
        ELSE Get(d, c, PyNone) ]

\* a save that inserts without deleting the rows of the batch's queries
upsert_without_delete(name, rows, data) ==
    IF data = << >> THEN rows
    ELSE IF ~Truthy(Get(data[1], "source_platform", PyNone))
            \/ ~Truthy(Get(data[1], "source_project", PyNone)) THEN rows
    ELSE rows \o [ i \in 1..Len(data) |-> RowOf(name, data[i]) ]

\* the body the three save_* methods share: the early returns, the DELETE
\* of the rows of the batch's query ids under the platform and project of
\* data[0], the INSERT of one row per dict
upsert(name, rows, data) ==
    IF data = << >> THEN rows
    ELSE IF ~Truthy(Get(data[1], "source_platform", PyNone))
            \/ ~Truthy(Get(data[1], "source_project", PyNone)) THEN rows
    ELSE LET source_platform == data[1].source_platform
             source_project == data[1].source_project
             query_ids == { Get(data[i], "query_id", PyNone) : i \in 1..Len(data) }
             Kept(r) == ~( /\ r.query_id \in query_ids
                           /\ r.source_platform = source_platform
                           /\ r.source_project = source_project )
         IN  SelectSeq(rows, Kept) \o [ i \in 1..Len(data) |-> RowOf(name, data[i]) ]

save_read_table_queries(rows, data) == upsert("read_table_queries", rows, data)
save_select_star_queries(rows, data) == upsert("select_star_queries", rows, data)
save_partition_candidates(rows, data) == upsert("partition_candidates", rows, data)

\* what load_queries gives run_analysis: the records of one platform and
\* project (the WHERE of load_queries), so every dict of a batch carries the
\* platform and project of the first one.  A query log may hold an empty
\* platform or project.
LoadedQuery(id, statement, platform, project) ==
    [ query_id |-> id, query_text |-> Statements[statement].sql,
      start_time |-> StartTimes[1], source_platform |-> platform,
      source_project |-> project ]

LoadedQueries ==
    << << LoadedQuery("q1", 1, "bigquery", "acme") >>,
       << LoadedQuery("q1", 9, "bigquery", "acme") >>,
       << LoadedQuery("q1", 8, "bigquery", "acme"),
          LoadedQuery("q2", 1, "bigquery", "acme") >>,
       << LoadedQuery("q1", 1, "snowflake", "acme") >>,
       << LoadedQuery("q1", 1, "", "acme") >>,
       << LoadedQuery("q1", 1, "bigquery", "") >>,
       << LoadedQuery("q2", 6, "bigquery", "acme") >>,
       << >> >>

RECURSIVE Concat(_)
Concat(lists) == IF lists = << >> THEN << >> ELSE lists[1] \o Concat(Tail(lists))

\* the data each analysis of run_analysis returns for each loaded batch
AnalysisData ==
    [ name \in FactTables |->
        [ b \in 1..Len(LoadedQueries) |->
            Concat([ i \in 1..Len(LoadedQueries[b]) |->
                       IF name = "read_table_queries"
                       THEN read_table_facts(LoadedQueries[b][i])
                       ELSE IF name = "select_star_queries"
                       THEN star_facts(LoadedQueries[b][i])
                       ELSE candidate_facts(LoadedQueries[b][i]) ]) ] ]

MaxSaves == 3

StorageInit ==
    /\ RequestInit /\ req = PlainRequest
    /\ stats0 = StatsBundle(MaxBuckets, MaxBuckets, FullMetadata)
    /\ TokenIdle /\ AnalyzerIdle /\ AggregationIdle /\ ServiceIdle

unsaved_vars == << request_vars, issued, analyzer_vars, aggregation_vars, advice, lookup >>

\* one step of the loop of run_analysis: save_fn(data)
SaveReadTableQueries ==
    /\ saved.calls < MaxSaves
    /\ \E b \in 1..Len(LoadedQueries) :
         \E data \in { AnalysisData["read_table_queries"][b] } :
            /\ store' = [ store EXCEPT !["read_table_queries"] =
                                           save_read_table_queries(@, data) ]
            /\ saved' = [ name |-> "read_table_queries", data |-> data,
                          calls |-> saved.calls + 1 ]
    /\ UNCHANGED unsaved_vars

SaveSelectStarQueries ==
    /\ saved.calls < MaxSaves
    /\ \E b \in 1..Len(LoadedQueries) :
         \E data \in { AnalysisData["select_star_queries"][b] } :
            /\ store' = [ store EXCEPT !["select_star_queries"] =
                                           save_select_star_queries(@, data) ]
            /\ saved' = [ name |-> "select_star_queries", data |-> data,
                          calls |-> saved.calls + 1 ]
    /\ UNCHANGED unsaved_vars

SavePartitionCandidates ==
    /\ saved.calls < MaxSaves
    /\ \E b \in 1..Len(LoadedQueries) :
         \E data \in { AnalysisData["partition_candidates"][b] } :
            /\ store' = [ store EXCEPT !["partition_candidates"] =
                                           save_partition_candidates(@, data) ]
            /\ saved' = [ name |-> "partition_candidates", data |-> data,
                          calls |-> saved.calls + 1 ]
    /\ UNCHANGED unsaved_vars

StorageNext == SaveReadTableQueries \/ SaveSelectStarQueries \/ SavePartitionCandidates

StorageSpec == StorageInit /\ [][StorageNext]_vars

(***************************************************************************)
(* Properties of the fact tables                                           *)
(***************************************************************************)
\* the upsert key of a row or of a dict of a batch
KeyOf(r) == << r.query_id, r.source_platform, r.source_project >>

RowsWithKey(rows, key) == SelectSeq(rows, LAMBDA r : KeyOf(r) = key)

KeysIn(rows) == { KeyOf(rows[i]) : i \in 1..Len(rows) }

\* a save that is not one of the no-ops: a batch with a first dict that has
\* a platform and a project
Effective(data) ==
    /\ data # << >>
    /\ Truthy(data[1].source_platform) /\ Truthy(data[1].source_project)

BatchRows(name, data) == [ i \in 1..Len(data) |-> RowOf(name, data[i]) ]

C21_Steps ==
    saved'.calls = saved.calls + 1 =>
        \E name \in { saved'.name } : \E data \in { saved'.data } :
            /\ \A other \in FactTables \ { name } : store'[other] = store[other]
            /\ ~Effective(data) => store' = store
            /\ Effective(data) =>
                  \A key \in KeysIn(store[name]) \cup KeysIn(store'[name]) :
                      RowsWithKey(store'[name], key) =
                          IF key \in KeysIn(BatchRows(name, data))
                          THEN RowsWithKey(BatchRows(name, data), key)
                          ELSE RowsWithKey(store[name], key)
            /\ (saved.name = name /\ saved.data = data) => store' = store

\* C21: saving derived facts is an upsert by (query_id, platform, project):
\* after a save_* call the rows of every key of the batch are exactly the
\* rows of that batch and the rows of every other key, and the other tables,
\* are as before; saving the batch that was saved last leaves the table as
\* it is; a save of an empty batch, or of one without platform or project,
\* changes nothing.
C21_SaveIsUpsert == [][C21_Steps]_vars

\* three saves into read_table_queries: q1 of bigquery/acme was saved
\* reading orders and customers and then reading t2, and q1 of
\* snowflake/acme was saved in between
C21_Witness ==
    /\ saved.calls = 3 /\ saved.name = "read_table_queries"
    /\ Len(saved.data) = 1 /\ saved.data[1].table = "t2"
    /\ Len(store.read_table_queries) = 3
    /\ store.read_table_queries[1].source_platform = "snowflake"
    /\ store.read_table_queries[2].source_platform = "snowflake"
    /\ store.read_table_queries[3].source_platform = "bigquery"
    /\ store.read_table_queries[3].table = "t2"
    /\ store.read_table_queries[3].count = << 1 >>

(***************************************************************************)
(* Part 5 of the development: the platform recommenders                    *)
(* (patterns/analyzer/bigquery_analyzer.py, snowflake_analyzer.py).        *)
(*                                                                         *)
(* Column-filter statistics are a dict from a "table.column" text to a     *)
(* count.  A recommendation is [table, recommendation]; the reason is a    *)
(* fixed text per kind of suggestion and is left out.                      *)
(***************************************************************************)
\* str.find(".") + 1: the place of the first dot, 0 when there is none
FirstDot(col) ==
    IF \E i \in 1..Len(col) : CharAt(col, i) = "."
    THEN CHOOSE i \in 1..Len(col) :
             CharAt(col, i) = "." /\ \A j \in 1..(i - 1) : CharAt(col, j) # "."
    ELSE 0

\* the loop that fills table_columns, a defaultdict of defaultdict(int)
RECURSIVE GroupByTable(_, _)
GroupByTable(filter_stats, table_columns) ==
    IF filter_stats = << >> THEN table_columns
    ELSE LET col == filter_stats[1].k
             dot == FirstDot(col)
             table == SubSeq(col, 1, dot - 1)
             column == SubSeq(col, dot + 1, Len(col))
         IN  IF dot = 0 THEN GroupByTable(Tail(filter_stats), table_columns)
             ELSE GroupByTable(Tail(filter_stats),
                      DictSet(table_columns, table,
                          Increment(DictGetOr(table_columns, table, << >>), column,
                                    filter_stats[1].v)))

\* sorted(cols.items(), key=lambda x: x[1], reverse=True): a stable sort,
\* so columns of equal count keep the order of cols
RECURSIVE SortedByCount(_)
SortedByCount(items) ==
    IF items = << >> THEN << >>
    ELSE LET top == CHOOSE i \in 1..Len(items) :
                        /\ \A j \in 1..Len(items) : items[j].v <= items[i].v
                        /\ \A j \in 1..(i - 1) : items[j].v < items[i].v
         IN  << items[top] >> \o
             SortedByCount(SubSeq(items, 1, top - 1) \o SubSeq(items, top + 1, Len(items)))

ColumnNames(items) == [ i \in 1..Len(items) |-> items[i].k ]

\* the body of BigQueryAnalyzer.recommend below the call that gets filter_stats
RECURSIVE BigQuerySuggestions(_)
BigQuerySuggestions(table_columns) ==
    IF table_columns = << >> THEN << >>
    ELSE LET table == table_columns[1].k
             sorted_cols == SortedByCount(table_columns[1].v)
             cluster_cols == ColumnNames(FirstN(Tail(sorted_cols), 3))
         IN  (IF sorted_cols = << >> THEN << >>
              ELSE << [ table |-> table,
                        recommendation |-> "Consider PARTITION BY " \o sorted_cols[1].k ] >>
                   \o (IF cluster_cols = << >> THEN << >>
                       ELSE << [ table |-> table,
                                 recommendation |->
                                     "Consider CLUSTER BY " \o JoinNames(cluster_cols) ] >>))
             \o BigQuerySuggestions(Tail(table_columns))

\* the body of SnowflakeAnalyzer.recommend below the call that gets filter_stats
RECURSIVE SnowflakeSuggestions(_)
SnowflakeSuggestions(table_columns) ==
    IF table_columns = << >> THEN << >>
    ELSE LET sorted_cols == SortedByCount(table_columns[1].v)
             top_cols == ColumnNames(FirstN(sorted_cols, 3))
         IN  (IF sorted_cols = << >> THEN << >>
              ELSE << [ table |-> table_columns[1].k,
                        recommendation |->
                            "Consider defining CLUSTER BY keys on columns: "
                                \o JoinNames(top_cols) ] >>)
             \o SnowflakeSuggestions(Tail(table_columns))

\* what either recommend returns once it holds filter_stats
SuggestionsFor(platform, filter_stats) ==
    IF filter_stats = << >> THEN << >>
    ELSE IF platform = "bigquery"
    THEN BigQuerySuggestions(GroupByTable(filter_stats, << >>))
    ELSE SnowflakeSuggestions(GroupByTable(filter_stats, << >>))

\* self.get_column_filter_stats() as recommend calls it: the method has the
\* required parameters source_platform and source_project and is given
\* neither, so the call raises TypeError
get_column_filter_stats_of_recommend ==
    [ raised |-> TRUE,
      error |-> "TypeError: get_column_filter_stats() missing 2 required positional arguments",
      value |-> << >> ]

\* a recommend that ranks the statistics it is handed
recommend_from_argument(platform, column_filter_stats) ==
    [ raised |-> FALSE, error |-> "",
      value |-> SuggestionsFor(platform, column_filter_stats) ]

\* BigQueryAnalyzer.recommend (platform "bigquery") and
\* SnowflakeAnalyzer.recommend: the first statement sets filter_stats from
\* the call above, and column_filter_stats is read nowhere
recommend(platform, column_filter_stats) ==
    LET filter_stats == get_column_filter_stats_of_recommend
    IN  IF filter_stats.raised THEN filter_stats
        ELSE [ raised |-> FALSE, error |-> "",
               value |-> SuggestionsFor(platform, filter_stats.value) ]

MaxStats == 2

StatKeys == { "orders.a", "orders.b", "customers.id", "plain" }

\* the dicts of at most MaxStats keys with counts 1 and 2
ColumnFilterStats ==
    UNION { { d \in [ 1..n -> [ k : StatKeys, v : 1..2 ] ] :
                \A i, j \in 1..n : i # j => d[i].k # d[j].k } : n \in 0..MaxStats }

RecommendInit ==
    /\ RequestInit /\ req = PlainRequest
    /\ stats0 = StatsBundle(MaxBuckets, MaxBuckets, FullMetadata)
    /\ TokenIdle /\ AnalyzerIdle /\ AggregationIdle
    /\ store = [ name \in FactTables |-> << >> ]
    /\ saved = [ name |-> "", data |-> << >>, calls |-> 0 ]
    /\ lookup = NoLookup
    /\ \E platform \in { "bigquery", "snowflake" } :
         \E given \in ColumnFilterStats :
            advice = [ platform |-> platform, column_filter_stats |-> given,
                       called |-> FALSE, outcome |-> NoOutcome ]

Recommend ==
    /\ ~advice.called
    /\ \E outcome \in { recommend(advice.platform, advice.column_filter_stats) } :
          advice' = [ advice EXCEPT !.called = TRUE, !.outcome = outcome ]
    /\ UNCHANGED << request_vars, issued, analyzer_vars, aggregation_vars, store, saved,
                    lookup >>

RecommendNext == Recommend

RecommendSpec == RecommendInit /\ [][RecommendNext]_vars

(***************************************************************************)
(* Properties of the recommenders                                          *)
(***************************************************************************)
\* the tables of the statistics handed in, and the frequency of a column
TablesOf(given) ==
    { SubSeq(given[i].k, 1, FirstDot(given[i].k) - 1) :
        i \in { j \in 1..Len(given) : FirstDot(given[j].k) > 0 } }

ColumnsOf(given, table) ==
    { SubSeq(given[i].k, FirstDot(given[i].k) + 1, Len(given[i].k)) :
        i \in { j \in 1..Len(given) :
                  FirstDot(given[j].k) > 0
                  /\ SubSeq(given[j].k, 1, FirstDot(given[j].k) - 1) = table } }

Frequency(given, table, column) == DictGetOr(given, table \o "." \o column, 0)

MostFrequent(given, table) ==
    { c \in ColumnsOf(given, table) :
        \A d \in ColumnsOf(given, table) :
            Frequency(given, table, d) <= Frequency(given, table, c) }

SuggestionsOf(table) ==
    SelectSeq(advice.outcome.value, LAMBDA r : r.table = table)

\* C22: the platform recommendation rule ranks a table's filter columns by
\* frequency, from the column-filter counts handed to recommend: a recommend
\* call returns, for every table with a ranked column, a suggestion that
\* names a most frequent column first (for BigQuery the partition
\* suggestion, followed by one cluster suggestion when the table has more
\* columns; for Snowflake the single suggestion), and nothing for any other
\* table.
C22_RecommendRanksGivenCounts ==
    advice.called =>
        /\ ~advice.outcome.raised
        /\ \A r \in { advice.outcome.value[i] : i \in 1..Len(advice.outcome.value) } :
              r.table \in TablesOf(advice.column_filter_stats)
        /\ \A table \in TablesOf(advice.column_filter_stats) :
              IF advice.platform = "bigquery"
              THEN /\ Len(SuggestionsOf(table)) =
                          IF Cardinality(ColumnsOf(advice.column_filter_stats, table)) > 1
                          THEN 2 ELSE 1
                   /\ \E top \in MostFrequent(advice.column_filter_stats, table) :
                         SuggestionsOf(table)[1].recommendation
                             = "Consider PARTITION BY " \o top
              ELSE /\ Len(SuggestionsOf(table)) = 1
                   /\ \E top \in MostFrequent(advice.column_filter_stats, table) :
                         \E text \in { "Consider defining CLUSTER BY keys on columns: "
                                          \o top } :
                            /\ Len(SuggestionsOf(table)[1].recommendation) >= Len(text)
                            /\ SubSeq(SuggestionsOf(table)[1].recommendation, 1, Len(text))
                                   = text

(***************************************************************************)
(* Part 6 of the development: find_table_metadata                          *)
(* (api/services/data_service.py).                                         *)
(*                                                                         *)
(* A stored table is the dict load_tables returns for a row of the tables  *)
(* table.  The key of a lookup is the five arguments after storage.  The   *)
(* result is << >> for None and << metadata >> otherwise.                  *)
(***************************************************************************)
KeyFields == << "source_platform", "source_project", "database", "schema", "table" >>

\* x.lower() if x else None, and (tbl.get(f) or '').lower()
LowerOrNone(x) == IF Truthy(x) THEN lower(x) ELSE PyNone
LowerOrEmpty(x) == IF Truthy(x) THEN lower(x) ELSE ""

\* the dict the first matching table gives
MetadataOf(tbl) ==
    [ size_bytes |-> Get(tbl, "size_bytes", "Unknown"),
      row_count |-> Get(tbl, "row_count", "Unknown"),
      columns |-> Get(tbl, "columns", << >>) ]

\* a lookup that compares the fields as they are written
RECURSIVE find_table_metadata_exact_case(_, _)
find_table_metadata_exact_case(all_tables, key) ==
    IF all_tables = << >> THEN << >>
    ELSE IF \A f \in 1..Len(KeyFields) : Get(all_tables[1], KeyFields[f], "") = key[f]
    THEN << MetadataOf(all_tables[1]) >>
    ELSE find_table_metadata_exact_case(Tail(all_tables), key)

\* the loop over all_tables
RECURSIVE find_table_metadata(_, _)
find_table_metadata(all_tables, key) ==
    IF all_tables = << >> THEN << >>
    ELSE IF \A f \in 1..Len(KeyFields) :
                LowerOrEmpty(Get(all_tables[1], KeyFields[f], PyNone)) = LowerOrNone(key[f])
    THEN << MetadataOf(all_tables[1]) >>
    ELSE find_table_metadata(Tail(all_tables), key)

\* a row of the tables table as load_tables returns it; the size tells the
\* rows apart
StoredTable(platform, project, database, schema, table, size) ==
    [ source_platform |-> platform, source_project |-> project, database |-> database,
      schema |-> schema, table |-> table, size_bytes |-> size,
      columns |-> "[{\"name\": \"id\", \"type\": \"INT64\"}]" ]

\* the table of the request, the same table written in other case, and one
\* neighbour for each key field
StoredTables ==
    { StoredTable("bigquery", "acme", "sales", "public", "orders", 10),
      StoredTable("BigQuery", "ACME", "Sales", "PUBLIC", "Orders", 20),
      StoredTable("snowflake", "acme", "sales", "public", "orders", 30),
      StoredTable("bigquery", "other", "sales", "public", "orders", 40),
      StoredTable("bigquery", "acme", "hr", "public", "orders", 50),
      StoredTable("bigquery", "acme", "sales", "private", "orders", 60),
      StoredTable("bigquery", "acme", "sales", "public", "customers", 70) }

MaxTables == 2

\* the keys a validated request gives: every field has a value
LookupKeys ==
    { << "bigquery", "acme", "sales", "public", "orders" >>,
      << "BIGQUERY", "Acme", "SALES", "Public", "ORDERS" >> }

LookupInit ==
    /\ RequestInit /\ req = PlainRequest
    /\ stats0 = StatsBundle(MaxBuckets, MaxBuckets, FullMetadata)
    /\ TokenIdle /\ AnalyzerIdle /\ AggregationIdle
    /\ store = [ name \in FactTables |-> << >> ]
    /\ saved = [ name |-> "", data |-> << >>, calls |-> 0 ]
    /\ advice = NoAdvice
    /\ \E n \in 0..MaxTables : \E tables \in [ 1..n -> StoredTables ] :
         \E key \in LookupKeys :
            lookup = [ tables |-> tables, key |-> key, called |-> FALSE,
                       found |-> << >> ]

FindTableMetadata ==
    /\ ~lookup.called
    /\ \E found \in { find_table_metadata(lookup.tables, lookup.key) } :
          lookup' = [ lookup EXCEPT !.called = TRUE, !.found = found ]
    /\ UNCHANGED << request_vars, issued, analyzer_vars, aggregation_vars, store, saved,
                    advice >>

LookupNext == FindTableMetadata

LookupSpec == LookupInit /\ [][LookupNext]_vars

(***************************************************************************)
(* Properties of the metadata lookup                                       *)
(***************************************************************************)
\* the places of the stored tables that are the table of the key, letter
\* case aside
Matching ==
    { i \in 1..Len(lookup.tables) :
        \A f \in 1..Len(KeyFields) :
            lower(lookup.tables[i][KeyFields[f]]) = lower(lookup.key[f]) }

\* C23: find_table_metadata matches case-insensitively on all five key
\* fields and returns the metadata of the first stored table, in load
\* order, whose five fields all match; it returns None when no stored table
\* matches.
C23_FirstCaseInsensitiveMatch ==
    lookup.called =>
        IF Matching = { } THEN lookup.found = << >>
        ELSE \E first \in Matching :
                /\ \A i \in Matching : first <= i
                /\ Len(lookup.found) = 1
                /\ lookup.found[1].size_bytes = lookup.tables[first].size_bytes
                /\ lookup.found[1].columns = lookup.tables[first].columns

\* the table is stored twice in different case, the other spelling first,
\* and the lookup returned the first one
C23_Witness ==
    /\ lookup.called
    /\ lookup.key[5] = "orders"
    /\ Len(lookup.tables) = 2
    /\ lookup.tables[1].table = "Orders" /\ lookup.tables[2].table = "orders"
    /\ lookup.tables[2].schema = "public" /\ lookup.tables[2].size_bytes = 10
    /\ lookup.found = << [ size_bytes |-> 20, row_count |-> "Unknown",
                           columns |-> lookup.tables[1].columns ] >>

(***************************************************************************)
(* Properties of the fallback tier of the Advisory Orchestrator            *)
(***************************************************************************)
BucketStarts(list) == [ i \in 1..Len(list) |-> list[i].start ]

\* the entries of an ascending list that have fewer than two later entries
MostRecentTwo(list) ==
    SelectSeq(list, LAMBDA e :
        Cardinality({ i \in 1..Len(list) : StrLess(e.start, list[i].start) }) < 2)

\* C24: on the fallback path the monthly prompt is built from at most 2
\* monthly buckets and at most 2 partition-statistics entries, the most
\* recent ones of the lists find_patterns handed over; a list of 2 or fewer
\* entries is used as it is.
C24_MonthlyPromptFromLastTwo ==
    prompt_monthly.built =>
        /\ Len(prompt_monthly.time_data) <= 2
        /\ Len(prompt_monthly.partition_stats) <= 2
        /\ prompt_monthly.total_periods = Len(prompt_monthly.time_data)
        /\ prompt_monthly.time_data = MostRecentTwo(stats0.monthly_stats)
        /\ BucketStarts(prompt_monthly.partition_stats)
               = BucketStarts(MostRecentTwo(stats0.partition_stats))
        /\ Len(stats0.monthly_stats) <= 2 => prompt_monthly.time_data = stats0.monthly_stats
        /\ Len(stats0.partition_stats) <= 2 =>
               BucketStarts(prompt_monthly.partition_stats)
                   = BucketStarts(stats0.partition_stats)

\* the monthly prompt was built from lists of three buckets
C24_Witness ==
    /\ prompt_monthly.built
    /\ Len(stats0.monthly_stats) = 3 /\ Len(stats0.partition_stats) = 3
    /\ BucketStarts(prompt_monthly.time_data) = << "2023-11", "2023-12" >>
    /\ BucketStarts(prompt_monthly.partition_stats) = << "2024-01-08", "2024-01-15" >>

DictItems(d) == { d[i] : i \in 1..Len(d) }

\* the monthly reverse map binds no token the weekly one does not bind, and
\* loses at most column tokens
C25_MonthlyMapWithinWeeklyMap ==
    prompt_monthly.built =>
        /\ DictItems(reverse_map) \subseteq DictItems(WeeklyMapOf(req, stats0))
        /\ \A kv \in DictItems(WeeklyMapOf(req, stats0)) \ DictItems(reverse_map) :
              SubSeq(kv.k, 1, 6) = "__COL_"

\* C25: the two tiers of one request use consistent tokens: every binding
\* of the monthly reverse map is a binding of the weekly reverse map, and
\* the table, database, schema, platform and project tokens in the monthly
\* prompt are the ones in the weekly prompt.
C25_TiersUseSameTokens ==
    prompt_monthly.built =>
        /\ DictItems(reverse_map) \subseteq DictItems(WeeklyMapOf(req, stats0))
        /\ prompt_monthly.table_line = prompt.table_line
        /\ prompt_monthly.source_line = prompt.source_line

\* the prompt of the tier last anonymized
CurrentPrompt == IF prompt_monthly.built THEN prompt_monthly ELSE prompt

\* the column names a bundle shows: those of its partition statistics, and
\* those of its metadata when there is a list to read
NamesInStatistics(st) ==
    UNION { { st.partition_stats[i].columns[j].column :
                j \in 1..Len(st.partition_stats[i].columns) } :
            i \in 1..Len(st.partition_stats) }

MetadataItems(st) ==
    IF st.table_metadata.present
          /\ (st.table_metadata.columns.kind = "json" => st.table_metadata.columns.valid)
    THEN st.table_metadata.columns.items
    ELSE << >>

NamesInMetadata(st) == { MetadataItems(st)[i].name : i \in 1..Len(MetadataItems(st)) }

ColumnToken(name) == "__COL_" \o hash8(name) \o "__"

BoundToken(token, name) ==
    /\ SubSeq(token, 1, 2) = "__" /\ token # name
    /\ DictHas(reverse_map, token) /\ DictGet(reverse_map, token) = name

\* C26: the reverse map of a request binds a COL token to every non-empty
\* column name of the partition statistics and of the table's metadata
\* (name/type records, bare strings or a JSON-encoded list), so also to a
\* column that is in the metadata only; and the metadata column list of the
\* prompt has the length and the types of the original (a bare string has
\* type unknown), every name replaced by a token of the reverse map.
C26_EveryColumnTokenized ==
    CurrentPrompt.built =>
        /\ \A name \in (NamesInStatistics(stats) \cup NamesInMetadata(stats)) \ { "" } :
              /\ DictHas(reverse_map, ColumnToken(name))
              /\ DictGet(reverse_map, ColumnToken(name)) = name
        /\ CurrentPrompt.n_columns = Len(MetadataItems(stats))
        /\ \E anon \in { anonymize_table_metadata(stats.table_metadata, reverse_map) } :
              /\ anon.present = stats.table_metadata.present
              /\ Len(anon.columns.items) = Len(MetadataItems(stats))
              /\ CurrentPrompt.col_list =
                     IF MetadataItems(stats) = << >> THEN "Unknown"
                     ELSE JoinColumns(anon.columns.items).value
              /\ \A i \in 1..Len(MetadataItems(stats)) :
                    /\ anon.columns.items[i].type =
                           IF MetadataItems(stats)[i].isdict
                           THEN MetadataItems(stats)[i].type ELSE "unknown"
                    /\ MetadataItems(stats)[i].name # "" =>
                           BoundToken(anon.columns.items[i].name, MetadataItems(stats)[i].name)

\* the metadata names column status as a bare string, no statistic filters
\* on it, and the prompt lists its token with type unknown
C26_Witness ==
    /\ prompt.built /\ ~prompt_monthly.built
    /\ "status" \in NamesInMetadata(stats) \ NamesInStatistics(stats)
    /\ ~MetadataItems(stats)[1].isdict
    /\ DictHas(reverse_map, "__COL_073C1634__")
    /\ Len(prompt.col_list) >= 26
    /\ SubSeq(prompt.col_list, 1, 26) = "__COL_073C1634__ (unknown)"

(***************************************************************************)
(* Further properties of the aggregation                                   *)
(***************************************************************************)
\* the partition candidates that have a timestamp, a column and a filter
\* type
Complete(candidate) ==
    /\ Truthy(Get(candidate, "start_time", PyNone))
    /\ Truthy(Get(candidate, "column", PyNone))
    /\ Truthy(Get(candidate, "filter_type", PyNone))

\* the sum of count over the candidates of a bucket, column and filter type
RECURSIVE CandidateCount(_, _, _, _, _)
CandidateCount(list, period, bucket, column, filter_type) ==
    IF list = << >> THEN 0
    ELSE (IF Complete(list[1])
             /\ BucketKey(period, list[1].start_time) = bucket
             /\ list[1].column = column /\ list[1].filter_type = filter_type
          THEN Get(list[1], "count", 0) ELSE 0)
         + CandidateCount(Tail(list), period, bucket, column, filter_type)

PartitionRows(period) == agg[period][1].partition_stats

Ascending(list) == \A i \in 1..(Len(list) - 1) : StrLess(list[i], list[i + 1])

\* C27: partition statistics are a three-level fold: for every bucket,
\* column and filter type the emitted total_count is the sum of count over
\* the partition candidates of that bucket, column and filter type; each
\* combination of a candidate is emitted, and exactly once; buckets, the
\* columns of a bucket and the filter types of a column are in ascending
\* order; candidates without a timestamp, a column or a filter type
\* contribute nothing.
C27_PartitionStatsThreeLevelFold ==
    \A period \in Periods :
        agg[period] # << >> =>
            \E rows \in { PartitionRows(period) } :
               \E list \in { Filtered.partition_candidates } :
                  /\ Ascending([ i \in 1..Len(rows) |-> KeyOfRow(period, rows[i]) ])
                  /\ \A i \in 1..Len(rows) :
                        /\ rows[i].columns # << >>
                        /\ Ascending([ j \in 1..Len(rows[i].columns) |->
                                         rows[i].columns[j].column ])
                        /\ \A j \in 1..Len(rows[i].columns) :
                              \E col \in { rows[i].columns[j] } :
                                 /\ col.filter_types # << >>
                                 /\ Ascending([ l \in 1..Len(col.filter_types) |->
                                                  col.filter_types[l].filter_type ])
                                 /\ \A l \in 1..Len(col.filter_types) :
                                       /\ col.filter_types[l].total_count =
                                              CandidateCount(list, period,
                                                  KeyOfRow(period, rows[i]), col.column,
                                                  col.filter_types[l].filter_type)
                                       /\ \E c \in 1..Len(list) :
                                             /\ Complete(list[c])
                                             /\ BucketKey(period, list[c].start_time)
                                                    = KeyOfRow(period, rows[i])
                                             /\ list[c].column = col.column
                                             /\ list[c].filter_type
                                                    = col.filter_types[l].filter_type
                  /\ \A c \in 1..Len(list) :
                        Complete(list[c]) =>
                            \E i \in 1..Len(rows) : \E j \in 1..Len(rows[i].columns) :
                               \E l \in 1..Len(rows[i].columns[j].filter_types) :
                                  /\ KeyOfRow(period, rows[i])
                                         = BucketKey(period, list[c].start_time)
                                  /\ rows[i].columns[j].column = list[c].column
                                  /\ rows[i].columns[j].filter_types[l].filter_type
                                         = list[c].filter_type

\* candidates of two columns and two filter types in one week, stored with
\* id before created_at and WHERE before GROUP_BY, next to candidates
\* without column and without filter type in another week: two buckets, the
\* later one with created_at (GROUP_BY 1, WHERE 2) before id (WHERE 1)
C27_Witness ==
    /\ agg.weekly # << >>
    /\ Len(Filtered.partition_candidates) = 5
    /\ \E c \in 1..5 : ~Complete(Filtered.partition_candidates[c])
    /\ Len(PartitionRows("weekly")) = 1
    /\ PartitionRows("weekly")[1].week_start = "2024-12-30"
    /\ PartitionRows("weekly")[1].columns =
          << [ column |-> "created_at",
               filter_types |-> << [filter_type |-> "GROUP_BY", total_count |-> 1],
                                   [filter_type |-> "WHERE", total_count |-> 2] >> ],
             [ column |-> "id",
               filter_types |-> << [filter_type |-> "WHERE", total_count |-> 1] >> ] >>

(***************************************************************************)
(* What query_ai_with_fallback does to the bundle of its caller            *)
(***************************************************************************)
\* the monthly tier was entered
FellBack == \E i \in 1..Len(tier_log) : tier_log[i] = "monthly"

C29_States ==
    tier_log # << >> =>
        /\ DOMAIN stats = DOMAIN stats0
        /\ stats.weekly_stats = stats0.weekly_stats
        /\ stats.table_metadata = stats0.table_metadata
        /\ stats.summary = stats0.summary
        /\ IF FellBack
           THEN /\ stats.monthly_stats = MostRecentTwo(stats0.monthly_stats)
                /\ stats.partition_stats = MostRecentTwo(stats0.partition_stats)
           ELSE stats = stats0
        /\ prompt.built => prompt.time_data = stats0.weekly_stats
        /\ prompt_monthly.built => prompt_monthly.time_data = stats.monthly_stats

C29_Steps ==
    stats' # stats =>
        \/ pc = "received"
        \/ pc = "fallback" /\ pc' \in {"monthly_call", "raised"}

\* C29: query_ai_with_fallback leaves the statistics bundle of its caller as
\* it got it when the weekly tier succeeds; on the fallback path it changes
\* nothing but monthly_stats and partition_stats, which become their last
\* two entries, the entries themselves as they were; weekly_stats,
\* table_metadata and summary are never modified, and the time series go
\* into the prompts as they are.
C29_FallbackOnlyTruncates == []C29_States /\ [][C29_Steps]_vars

\* the monthly tier answered for a bundle of three months and three
\* partition entries: the caller's bundle has two of each and its three
\* weeks
C29_Witness ==
    /\ pc = "returned" /\ FellBack
    /\ Len(stats0.monthly_stats) = 3 /\ Len(stats.monthly_stats) = 2
    /\ Len(stats0.partition_stats) = 3 /\ Len(stats.partition_stats) = 2
    /\ Len(stats.weekly_stats) = 3
    /\ stats.summary.total_weeks = 3

(***************************************************************************)
(* Conservation of the totals across the two aggregations                  *)
(***************************************************************************)
\* the summary of the last get_table_stats of a period
SummaryOf(period) == agg[period][1].summary

BucketCountOf(period) ==
    IF period = "weekly" THEN SummaryOf(period).total_weeks
    ELSE SummaryOf(period).total_months

\* C30: the weekly and the monthly aggregation of the same facts conserve
\* the totals: total_queries summed over the weekly buckets equals it summed
\* over the monthly buckets and equals the sum of the counts, a missing
\* count being 1, of the read-table facts with a timestamp; the same holds
\* of star_queries and the wide-scan facts; and the summary of
\* get_table_stats reports these two sums and the number of buckets of its
\* series.
C30_TotalsConserved ==
    \E mine \in { Filtered } :
    \E reads \in { TimedCounts(mine.read_queries) } :
    \E stars \in { TimedCounts(mine.star_queries) } :
        /\ \A period \in Periods :
              agg[period] # << >>
              => /\ SumField(RowsOf(period), "total_queries") = reads
                 /\ SumField(RowsOf(period), "star_queries") = stars
                 /\ SummaryOf(period).total_queries = reads
                 /\ SummaryOf(period).total_star_queries = stars
                 /\ BucketCountOf(period) = Len(RowsOf(period))
        /\ (agg.weekly # << >> /\ agg.monthly # << >>)
              => /\ SumField(RowsOf("weekly"), "total_queries")
                       = SumField(RowsOf("monthly"), "total_queries")
                 /\ SumField(RowsOf("weekly"), "star_queries")
                       = SumField(RowsOf("monthly"), "star_queries")
                 /\ SummaryOf("weekly").total_queries = SummaryOf("monthly").total_queries
                 /\ SummaryOf("weekly").total_star_queries
                       = SummaryOf("monthly").total_star_queries

\* two weeks of one month were aggregated both ways, next to a fact without
\* timestamp and of count 4: two weekly buckets, one monthly bucket, the
\* same totals, which leave the 4 out
C30_Witness ==
    /\ agg.weekly # << >> /\ agg.monthly # << >>
    /\ Len(RowsOf("weekly")) = 2 /\ Len(RowsOf("monthly")) = 1
    /\ SummaryOf("weekly").total_weeks = 2 /\ SummaryOf("monthly").total_months = 1
    /\ SummaryOf("weekly").total_queries = 3 /\ SummaryOf("monthly").total_queries = 3
    /\ SummaryOf("weekly").total_star_queries = 2
    /\ \E i \in 1..Len(Filtered.read_queries) :
          ~HasTime(Filtered.read_queries[i]) /\ Filtered.read_queries[i].count = 4

=============================================================================
